---- MODULE Spec2Model ----
(***************************************************************************)
(* The streaming round-robin scheduler of the proof-of-work coordinator   *)
(* (coordinator/src/scheduler.rs, driven by coordinator/src/lib.rs).       *)
(*                                                                         *)
(* The coordinator canister is a single-threaded actor: a message handler *)
(* runs atomically up to its next outbound call.  One action of the model *)
(* is therefore one such atomic piece: the heartbeat (tick up to the mine *)
(* RPC), the reply callback of a mine RPC (Found / Continue / error), the *)
(* reply callback of a stop RPC, and the two update entry points.          *)
(*                                                                         *)
(* Scaling.  TLC computes with 32-bit integers, so                         *)
(*   - u64 nonces are kept in a word of NonceBits bits: every u64 addition *)
(*     of the source is taken modulo U64_MODULUS = 2^NonceBits;            *)
(*   - time is counted in seconds (10^9 ns): ASSIGN_TIMEOUT_NS = 10.       *)
(* Slot indices are 0-based as in the source; miners[i + 1] is slot i.     *)
(*                                                                         *)
(* CoordinatorState.started_at is read by get_scheduler_stats only and is  *)
(* left out.  dispatched, pending and bcasts record the RPCs the canister  *)
(* has sent and the replies still outstanding; epoch counts the searches.  *)
(*                                                                         *)
(* Spec is the scheduler under every interleaving; SpecS3 and SpecS4 are   *)
(* the scenarios S3 (workers answer Continue before the next tick) and S4  *)
(* (a single worker that never responds), built from the same actions, and *)
(* SpecS5 lets a search be started over an earlier one.                    *)
(*                                                                         *)
(* SpecW is a worker canister (existing_backend/src/lib.rs) serving calls  *)
(* of its three chunk-mining entry points, which are pure functions of     *)
(* their arguments.  Digests are two bytes long instead of 32.             *)
(*                                                                         *)
(* SpecV is the validator canister (validator/src/lib.rs) serving its      *)
(* queries; SpecT is a worker's streaming task with its cache and metrics  *)
(* (existing_backend/src/advanced.rs, cache.rs, metrics.rs); SpecC is the  *)
(* LRUCache under its own operations; SpecF is the coordinator's one-shot  *)
(* fan-out, start_vrf_parallel_mining; SpecA is adaptive_chunk_size on its *)
(* own; SpecL is one streaming task under heartbeats that never cease.     *)
(***************************************************************************)
EXTENDS Integers, Sequences, FiniteSets, TLC

\* ------------------------------------------------------------------------
\* Bounds of the model
\* ------------------------------------------------------------------------
MaxMiners == 2          \* largest roster given to start_dynamic_mining
MaxDispatch == 4        \* chunks dispatched per search
MaxNow == 23            \* last clock value (seconds)
MaxSearches == 1        \* calls of start_dynamic_mining
NonceBits == 11         \* width of the scaled u64 word
S3Miners == 3           \* largest roster of the round-robin scenario
S3Ticks == 6            \* chunks dispatched in the round-robin scenario
S4MaxNow == 34          \* last clock value of the timeout scenario
S5Searches == 2         \* calls of start_dynamic_mining, restart scenario
S5Dispatch == 3         \* chunks dispatched per search, restart scenario
HashPeriod == 3         \* nonces after which a block's digests repeat
MaxChunk == 3           \* largest chunk_size given to a worker
U32Bits == 5            \* width of the scaled u32 word
HashBytes == 2          \* length of the hashes given to meets_difficulty
MaxSegment == 3         \* longest chain segment given to the validator
MaxTimes == 2           \* longest list of block times given to the validator
TaskPeriod == 32        \* period of the digests of a streaming task's block
MaxTicks == 3           \* chunks the heartbeat mines
MaxStarts == 2          \* calls of start_advanced_mining
VrfMiners == 3          \* workers of the one-shot fan-out
MaxHits == 1            \* hits counted on one cache entry
MaxOrder == 4           \* longest access_order of the cache
CacheMaxNow == 12       \* last clock value of the cache's own runs
MaxBalance == 7         \* largest cycles balance, in units of 10^11 cycles

\* ------------------------------------------------------------------------
\* Program constants
\* ------------------------------------------------------------------------
ASSIGN_TIMEOUT_NS == 10
MAX_FAILURES == 3
ONE_HOUR_NS == 60
MAX_ADJUSTMENT == 2
MAX_CACHE_SIZE == 2
BASE == 4
MIN == 1
MAX == 20
DIFF_PIVOT == 4
CYCLES_PER_FACTOR == 1

U64_MODULUS == 2 ^ NonceBits
U64_MAX == U64_MODULUS - 1

\* Option<T>: None is the empty sequence, Some(x) the one-element sequence.
None == << >>
Some(x) == << x >>

\* u64 `+=` : wraps in a release build (overflow checks off).
WrappingAdd(a, b) == (a + b) % U64_MODULUS
\* u64::saturating_sub
SaturatingSub(a, b) == IF a >= b THEN a - b ELSE 0

\* ------------------------------------------------------------------------
\* Inputs
\* ------------------------------------------------------------------------
\* Rosters: worker ids 1..n in order, for every n up to MaxMiners (empty too).
RostersUpTo(m) == { [i \in 1..n |-> i] : n \in 0..m }
Rosters == RostersUpTo(MaxMiners)
\* (start_nonce, chunk_size) given to start_dynamic_mining: the scenario of the
\* specification, and a chunk of half the nonce space (2^63 in the source).
SearchParams == { << 1000, 100 >>, << 0, U64_MODULUS \div 2 >> }
\* One clock step: exactly the timeout, or one second more.
TimeSteps == { ASSIGN_TIMEOUT_NS, ASSIGN_TIMEOUT_NS + 1 }

\* The hex digest a worker reports with a nonce (opaque to the coordinator).
WorkerHash(nonce) == << "sha256", nonce >>

VARIABLES
    initialized,            \* STATE is Some(..)
    miners,                 \* CoordinatorState.miners : Seq(MinerSlot)
    next_nonce,             \* CoordinatorState.next_nonce
    chunk_size,             \* CoordinatorState.chunk_size
    running,                \* CoordinatorState.running
    rr_cursor,              \* CoordinatorState.rr_cursor
    solution_found,         \* CoordinatorState.solution_found
    total_chunks_assigned,  \* CoordinatorState.total_chunks_assigned
    target,                 \* TARGET is Some(..)
    now,                    \* ic_cdk::api::time()
    epoch,                  \* number of start_scheduler calls so far
    dispatched,             \* every mine RPC sent, in order of sending
    pending,                \* indices of dispatched whose reply is outstanding
    bcasts,                 \* every broadcast_stop run, in order of starting
    call,                   \* worker, validator: the call being served, if any
    reply,                  \* worker, validator: what that call returned
    task,                   \* worker: TASK
    cache,                  \* worker: CACHE
    metrics,                \* worker: METRICS
    vrf                     \* coordinator: the one-shot fan-out under way

\* The variables of the coordinator canister, and of a worker canister.
cvars == << initialized, miners, next_nonce, chunk_size, running, rr_cursor,
            solution_found, total_chunks_assigned, target, now, epoch,
            dispatched, pending, bcasts >>
svars == << task, cache, metrics >>
wvars == << call, reply, svars, vrf >>

vars == << cvars, wvars >>

state == << initialized, miners, next_nonce, chunk_size, running, rr_cursor,
            solution_found, total_chunks_assigned >>

\* ------------------------------------------------------------------------
\* MinerSlot
\* ------------------------------------------------------------------------
MinerSlot(p) ==
    [ id |-> p, busy |-> FALSE, assigned_at |-> 0, failures |-> 0,
      total_chunks |-> 0, successful_chunks |-> 0 ]

\* miners.get_mut(slot_index): the position of the slot, if there is one.
GetMut(ms, slot_index) ==
    IF slot_index < Len(ms) THEN { slot_index + 1 } ELSE {}

\* ------------------------------------------------------------------------
\* schedule_once, first critical section
\* ------------------------------------------------------------------------
\* Mutant: a chunk is reclaimed as soon as the timeout is reached.
TimedOutAtTimeout(m, t) ==
    m.busy /\ SaturatingSub(t, m.assigned_at) >= ASSIGN_TIMEOUT_NS

\* Reclaim timed-out miners.
TimedOut(m, t) == m.busy /\ SaturatingSub(t, m.assigned_at) > ASSIGN_TIMEOUT_NS

Reclaim(ms, t) ==
    [ i \in DOMAIN ms |->
        IF TimedOut(ms[i], t)
        THEN [ ms[i] EXCEPT !.busy = FALSE, !.assigned_at = 0,
                            !.failures = @ + 1 ]
        ELSE ms[i] ]

\* Mutant: the failure count is not looked at.
EligibleIfIdle(m) == ~m.busy

\* A slot the selection loop does not `continue` past.
Eligible(m) == ~m.busy /\ ~(m.failures >= MAX_FAILURES)

\* Round-robin idle miner selection: `left` iterations of the for loop remain,
\* `probed` are the slot indices examined so far in this pass (the pick last).
RECURSIVE Probe(_, _, _, _)
Probe(ms, cursor, left, probed) ==
    IF left = 0
    THEN [ picked |-> FALSE, i |-> 0, cursor |-> cursor, probed |-> probed ]
    ELSE LET n == Len(ms)
             i == cursor % n
             advanced == (cursor + 1) % n
         IN  IF Eligible(ms[i + 1])
             THEN [ picked |-> TRUE, i |-> i, cursor |-> advanced,
                    probed |-> Append(probed, i) ]
             ELSE Probe(ms, advanced, left - 1, Append(probed, i))

\* Mutant: every pass starts at slot 0.
SelectFromFirst(ms, cursor) == Probe(ms, 0, Len(ms), << >>)

Select(ms, cursor) == Probe(ms, cursor, Len(ms), << >>)

\* The slot after being picked at time t.
Assign(m, t) ==
    [ m EXCEPT !.busy = TRUE, !.assigned_at = t, !.total_chunks = @ + 1 ]

\* The mine RPC sent for pick p: the search it belongs to, the slot, the
\* worker, the chunk, and the probes of the selection pass that made the pick.
Call(p, ms, start, size) ==
    [ epoch |-> epoch, slot_index |-> p.i, miner |-> ms[p.i + 1].id,
      start |-> start, size |-> size, probed |-> p.probed ]

\* ------------------------------------------------------------------------
\* Init: the canister after installation
\* ------------------------------------------------------------------------
\* LRUCache::new
LRUCacheNew == [ entries |-> << >>, access_order |-> << >> ]

\* MiningMetrics::default, without the wall-time and instruction measurements
MiningMetricsDefault ==
    [ total_chunks_mined |-> 0, total_hashes_computed |-> 0,
      successful_chunks |-> 0, failed_chunks |-> 0,
      cache_hits |-> 0, cache_misses |-> 0,
      early_terminations |-> 0, chunks_abandoned |-> 0,
      adaptive_chunk_changes |-> 0, avg_chunk_size |-> 0,
      solutions_found |-> 0, last_solution_time |-> 0 ]

Init ==
    /\ initialized = FALSE
    /\ miners = << >>
    /\ next_nonce = 0
    /\ chunk_size = 0
    /\ running = FALSE
    /\ rr_cursor = 0
    /\ solution_found = None
    /\ total_chunks_assigned = 0
    /\ target = FALSE
    /\ now = 1
    /\ epoch = 0
    /\ dispatched = << >>
    /\ pending = {}
    /\ bcasts = << >>
    /\ call = None
    /\ reply = None
    /\ task = None
    /\ cache = LRUCacheNew
    /\ metrics = MiningMetricsDefault
    /\ vrf = None

\* ------------------------------------------------------------------------
\* start_dynamic_mining / start_scheduler
\* ------------------------------------------------------------------------
\* Mutant: a latched solution survives the start of the next search.
StartSchedulerKeepsLatch(roster, start_nonce, size) ==
    /\ initialized' = TRUE
    /\ miners' = [ i \in DOMAIN roster |-> MinerSlot(roster[i]) ]
    /\ next_nonce' = start_nonce
    /\ chunk_size' = size
    /\ running' = (solution_found = None)
    /\ rr_cursor' = 0
    /\ solution_found' = solution_found
    /\ total_chunks_assigned' = 0

start_scheduler(roster, start_nonce, size) ==
    /\ initialized' = TRUE
    /\ miners' = [ i \in DOMAIN roster |-> MinerSlot(roster[i]) ]
    /\ next_nonce' = start_nonce
    /\ chunk_size' = size
    /\ running' = TRUE
    /\ rr_cursor' = 0
    /\ solution_found' = None
    /\ total_chunks_assigned' = 0

\* start_dynamic_mining with a roster of `rosters`, at most `searches` times.
StartDynamicMiningUpTo(rosters, searches) ==
    /\ epoch < searches
    /\ \E roster \in rosters, p \in SearchParams :
          start_scheduler(roster, p[1], p[2])
    /\ target' = TRUE
    /\ epoch' = epoch + 1
    /\ UNCHANGED << now, dispatched, pending, bcasts, wvars >>

StartDynamicMiningWith(rosters) == StartDynamicMiningUpTo(rosters, MaxSearches)

StartDynamicMining == StartDynamicMiningWith(Rosters)

\* ------------------------------------------------------------------------
\* stop_dynamic_mining / stop_scheduler
\* ------------------------------------------------------------------------
stop_scheduler ==
    /\ running' = (IF initialized THEN FALSE ELSE running)
    /\ UNCHANGED << initialized, miners, next_nonce, chunk_size, rr_cursor,
                    solution_found, total_chunks_assigned >>

\* Mutant: the tick target is left installed.
StopKeepsTarget ==
    /\ stop_scheduler
    /\ target' = target
    /\ UNCHANGED << now, epoch, dispatched, pending, bcasts, wvars >>

StopDynamicMining ==
    /\ stop_scheduler
    /\ target' = FALSE
    /\ UNCHANGED << now, epoch, dispatched, pending, bcasts, wvars >>

\* ------------------------------------------------------------------------
\* coordinator_heartbeat / tick / schedule_once up to the mine RPC
\* ------------------------------------------------------------------------
\* The tick returns before the state is borrowed mutably, or right after.
TickReturnsEarly ==
    \/ solution_found # None
    \/ ~initialized
    \/ ~running
    \/ miners = << >>

\* The pick of a tick run now, in the present state.
Pick == Select(Reclaim(miners, now), rr_cursor)

TickEarly ==
    /\ target
    /\ TickReturnsEarly
    /\ UNCHANGED vars

\* No eligible slot: the sweep is kept, the cursor has gone round.
TickNoPick ==
    /\ target
    /\ ~TickReturnsEarly
    /\ ~Pick.picked
    /\ miners' = Reclaim(miners, now)
    /\ rr_cursor' = Pick.cursor
    /\ UNCHANGED << initialized, next_nonce, chunk_size, running,
                    solution_found, total_chunks_assigned, target, now, epoch,
                    dispatched, pending, bcasts, wvars >>

\* The picked slot is assigned [next_nonce, next_nonce + chunk_size) and the
\* mine RPC is sent; at most `limit` chunks per search.
TickDispatch(limit) ==
    /\ target
    /\ ~TickReturnsEarly
    /\ Pick.picked
    /\ total_chunks_assigned < limit
    /\ miners' = [ Reclaim(miners, now) EXCEPT ![Pick.i + 1] = Assign(@, now) ]
    /\ rr_cursor' = Pick.cursor
    /\ next_nonce' = WrappingAdd(next_nonce, chunk_size)
    /\ total_chunks_assigned' = total_chunks_assigned + 1
    /\ dispatched' = Append(dispatched,
                            Call(Pick, Reclaim(miners, now), next_nonce, chunk_size))
    /\ pending' = pending \cup { Len(dispatched) + 1 }
    /\ UNCHANGED << initialized, chunk_size, running, solution_found, target,
                    now, epoch, bcasts, wvars >>

\* Overflow checks on (a debug build): `next_nonce += chunk_size` panics, the
\* heartbeat traps and everything it did is rolled back.
TickTraps ==
    /\ target
    /\ ~TickReturnsEarly
    /\ Pick.picked
    /\ next_nonce + chunk_size > U64_MAX
    /\ UNCHANGED vars

Tick ==
    \/ TickEarly
    \/ TickNoPick
    \/ TickDispatch(MaxDispatch)
    \/ TickTraps

\* ------------------------------------------------------------------------
\* broadcast_stop
\* ------------------------------------------------------------------------
\* A run of broadcast_stop: `targets` is the roster read at its start, `sent`
\* the number of stop RPCs sent so far, `awaiting` whether the reply of the
\* last one is outstanding.
StartBroadcast(ms) ==
    LET targets == [ i \in DOMAIN ms |-> ms[i].id ]
    IN  [ epoch |-> epoch, targets |-> targets,
          sent |-> IF targets = << >> THEN 0 ELSE 1,
          awaiting |-> targets # << >> ]

\* Mutant: a failed stop RPC ends the broadcast.
AfterStopReplyAbortsOnError(b, ok) ==
    IF ok /\ b.sent < Len(b.targets)
    THEN [ b EXCEPT !.sent = @ + 1 ]
    ELSE [ b EXCEPT !.awaiting = FALSE ]

\* The reply (ok or error) of the outstanding stop RPC: an error is logged
\* and dropped, and the loop goes on to the next target either way.
AfterStopReply(b, ok) ==
    IF b.sent < Len(b.targets)
    THEN [ b EXCEPT !.sent = @ + 1 ]
    ELSE [ b EXCEPT !.awaiting = FALSE ]

StopReply ==
    /\ \E k \in DOMAIN bcasts, ok \in BOOLEAN :
          /\ bcasts[k].awaiting
          /\ bcasts' = [ bcasts EXCEPT ![k] = AfterStopReply(@, ok) ]
    /\ UNCHANGED << initialized, miners, next_nonce, chunk_size, running,
                    rr_cursor, solution_found, total_chunks_assigned, target,
                    now, epoch, dispatched, pending, wvars >>

\* ------------------------------------------------------------------------
\* schedule_once after the mine RPC
\* ------------------------------------------------------------------------
OnFound(m) == [ m EXCEPT !.busy = FALSE, !.successful_chunks = @ + 1 ]
\* Mutant: the chunk is counted and the slot is left busy.
OnContinueKeepsBusy(m) == [ m EXCEPT !.successful_chunks = @ + 1 ]

OnContinue(m) ==
    [ m EXCEPT !.busy = FALSE, !.assigned_at = 0, !.successful_chunks = @ + 1 ]
\* Mutant: the failure is counted and the slot is left busy.
OnErrorKeepsBusy(m) == [ m EXCEPT !.failures = @ + 1 ]

OnError(m) ==
    [ m EXCEPT !.busy = FALSE, !.assigned_at = 0, !.failures = @ + 1 ]

\* The nonces a worker can report as Found for a chunk: a nonce of the chunk
\* (the first one stands for them); an empty chunk has none.
FoundNonces(c) == IF c.size > 0 THEN { c.start } ELSE {}

\* Mutant: the solution is stored and the scheduler is left running.
LatchKeepsRunning(nonce, hash) ==
    /\ solution_found' = Some(<< nonce, hash >>)
    /\ running' = running

\* Store solution and stop.
Latch(nonce, hash) ==
    /\ solution_found' = Some(<< nonce, hash >>)
    /\ running' = FALSE

\* The reply callbacks run only for RPCs that were sent, hence with STATE set:
\* their `if let Some(st)` always succeeds.
\* The reply to mine RPC k is Found { nonce, hash }.
RespondFoundTo(k, nonce) ==
    /\ k \in pending
    /\ nonce \in FoundNonces(dispatched[k])
    /\ Latch(nonce, WorkerHash(nonce))
    /\ miners' = [ i \in DOMAIN miners |->
                    IF i \in GetMut(miners, dispatched[k].slot_index)
                    THEN OnFound(miners[i])
                    ELSE miners[i] ]
    /\ bcasts' = Append(bcasts, StartBroadcast(miners))
    /\ pending' = pending \ { k }
    /\ UNCHANGED << initialized, next_nonce, chunk_size, rr_cursor,
                    total_chunks_assigned, target, now, epoch, dispatched,
                    wvars >>

RespondFound ==
    \E k \in pending :
        \E nonce \in FoundNonces(dispatched[k]) : RespondFoundTo(k, nonce)

\* The reply to mine RPC k is Continue { .. }.
RespondContinueTo(k) ==
    /\ k \in pending
    /\ miners' = [ i \in DOMAIN miners |->
                    IF i \in GetMut(miners, dispatched[k].slot_index)
                    THEN OnContinue(miners[i])
                    ELSE miners[i] ]
    /\ pending' = pending \ { k }
    /\ UNCHANGED << initialized, next_nonce, chunk_size, running, rr_cursor,
                    solution_found, total_chunks_assigned, target, now, epoch,
                    dispatched, bcasts, wvars >>

RespondContinue == \E k \in pending : RespondContinueTo(k)

\* Mine RPC k fails.
RespondErrorTo(k) ==
    /\ k \in pending
    /\ miners' = [ i \in DOMAIN miners |->
                    IF i \in GetMut(miners, dispatched[k].slot_index)
                    THEN OnError(miners[i])
                    ELSE miners[i] ]
    /\ pending' = pending \ { k }
    /\ UNCHANGED << initialized, next_nonce, chunk_size, running, rr_cursor,
                    solution_found, total_chunks_assigned, target, now, epoch,
                    dispatched, bcasts, wvars >>

RespondError == \E k \in pending : RespondErrorTo(k)

\* ------------------------------------------------------------------------
\* The clock
\* ------------------------------------------------------------------------
AdvanceTimeUpTo(limit) ==
    /\ \E d \in TimeSteps :
          /\ now + d <= limit
          /\ now' = now + d
    /\ UNCHANGED << initialized, miners, next_nonce, chunk_size, running,
                    rr_cursor, solution_found, total_chunks_assigned, target,
                    epoch, dispatched, pending, bcasts, wvars >>

AdvanceTime == AdvanceTimeUpTo(MaxNow)

Next ==
    \/ StartDynamicMining
    \/ StopDynamicMining
    \/ Tick
    \/ RespondFound
    \/ RespondContinue
    \/ RespondError
    \/ StopReply
    \/ AdvanceTime

Spec == Init /\ [][Next]_vars

\* ------------------------------------------------------------------------
\* Scenario S3: every worker answers Continue before the next tick
\* ------------------------------------------------------------------------
NextS3 ==
    \/ StartDynamicMiningWith(RostersUpTo(S3Miners))
    \/ (pending = {} /\ TickEarly)
    \/ (pending = {} /\ TickDispatch(S3Ticks))
    \/ (pending = {} /\ TickTraps)
    \/ RespondContinue
    \/ AdvanceTime

SpecS3 == Init /\ [][NextS3]_vars

\* ------------------------------------------------------------------------
\* Scenario S4: a single worker that never responds
\* ------------------------------------------------------------------------
NextS4 ==
    \/ StartDynamicMiningWith({ << 1 >> })
    \/ TickNoPick
    \/ TickDispatch(MaxDispatch)
    \/ TickTraps
    \/ AdvanceTimeUpTo(S4MaxNow)

SpecS4 == Init /\ [][NextS4]_vars

\* ------------------------------------------------------------------------
\* Scenario S5: a search is started over an earlier one (the clock stands
\* still, chunks fail by transport errors)
\* ------------------------------------------------------------------------
NextS5 ==
    \/ StartDynamicMiningUpTo(Rosters, S5Searches)
    \/ StopDynamicMining
    \/ TickEarly
    \/ TickNoPick
    \/ TickDispatch(S5Dispatch)
    \/ TickTraps
    \/ RespondFound
    \/ RespondContinue
    \/ RespondError
    \/ StopReply

SpecS5 == Init /\ [][NextS5]_vars

\* ------------------------------------------------------------------------
\* The worker canister (existing_backend/src/lib.rs): chunk mining
\* ------------------------------------------------------------------------
\* SHA-256 itself is not computed.  A digest is a byte array ([u8; 32] in the
\* source, two bytes here), and a block is known by the digests it yields:
\* block_data is the function from the nonce (modulo HashPeriod) to the digest
\* of block_data followed by the nonce's eight little-endian bytes.  Over a
\* chunk of at most HashPeriod nonces every pattern of digests occurs for
\* some block.
DigestSamples ==
    { << 0, 0 >>, << 0, 1 >>, << 0, 128 >>, << 1, 0 >>, << 128, 0 >> }
Blocks == [ 0..(HashPeriod - 1) -> DigestSamples ]
Difficulties == { 0, 1, 7, 8, 9, 15, 16, 17 }
StartNonces == { 0, 1000, U64_MAX - 2, U64_MAX }
ChunkSizes == 0..MaxChunk

\* u64::saturating_add
SaturatingAdd(a, b) == IF a + b > U64_MAX THEN U64_MAX ELSE a + b

\* Sha256::new, update, finalize_fixed: the hasher is the list of the inputs
\* absorbed so far; the digest of a block followed by a nonce is looked up.
Sha256New == << >>
Update(hasher, data) == Append(hasher, data)
FinalizeFixed(hasher) ==
    hasher[1][hasher[2] % Cardinality(DOMAIN hasher[1])]

\* u8::leading_zeros
LeadingZeros(b) ==
    IF b = 0 THEN 8
    ELSE IF b < 2 THEN 7
    ELSE IF b < 4 THEN 6
    ELSE IF b < 8 THEN 5
    ELSE IF b < 16 THEN 4
    ELSE IF b < 32 THEN 3
    ELSE IF b < 64 THEN 2
    ELSE IF b < 128 THEN 1
    ELSE 0

HexDigits ==
    << "0", "1", "2", "3", "4", "5", "6", "7",
       "8", "9", "a", "b", "c", "d", "e", "f" >>

\* hex::encode: two lower-case digits per byte, high nibble first.
hash_to_hex(bytes) ==
    [ i \in 1..(2 * Len(bytes)) |->
        IF i % 2 = 1
        THEN HexDigits[(bytes[(i + 1) \div 2] \div 16) + 1]
        ELSE HexDigits[(bytes[i \div 2] % 16) + 1] ]

\* String::new()
StringNew == << >>

\* The loop of meets_difficulty from byte i on, `remaining` bits to go.
RECURSIVE MeetsFromStrict(_, _, _)
MeetsFromStrict(hash, i, remaining) ==
    IF i > Len(hash) THEN remaining = 0
    ELSE IF remaining = 0 THEN TRUE
    ELSE IF LeadingZeros(hash[i]) > remaining THEN TRUE
    ELSE IF LeadingZeros(hash[i]) < 8 THEN FALSE
    ELSE MeetsFromStrict(hash, i + 1, remaining - 8)

\* Mutant: a byte passes only with more zero bits than remain.
MeetsDifficultyStrict(hash, difficulty) == MeetsFromStrict(hash, 1, difficulty)

RECURSIVE MeetsFrom(_, _, _)
MeetsFrom(hash, i, remaining) ==
    IF i > Len(hash) THEN remaining = 0
    ELSE IF remaining = 0 THEN TRUE
    ELSE IF LeadingZeros(hash[i]) >= remaining THEN TRUE
    ELSE IF LeadingZeros(hash[i]) < 8 THEN FALSE
    ELSE MeetsFrom(hash, i + 1, remaining - 8)

meets_difficulty(hash, difficulty) == MeetsFrom(hash, 1, difficulty)

\* MiningStatus
Found(hash, nonce) == [ tag |-> "Found", hash |-> hash, nonce |-> nonce ]
Continue(nonce) == [ tag |-> "Continue", next_nonce |-> nonce ]

\* HashMidState
HashMidStateNew(block_data) == Update(Sha256New, block_data)
finalize_with_nonce(mid, nonce) == FinalizeFixed(Update(mid, nonce))

\* The while loop of mine_chunk_with_midstate.
RECURSIVE MidstateLoop(_, _, _, _, _)
MidstateLoop(mid, difficulty, nonce, end, attempts) ==
    IF nonce < end
    THEN IF meets_difficulty(finalize_with_nonce(mid, nonce), difficulty)
         THEN << Found(hash_to_hex(finalize_with_nonce(mid, nonce)), nonce),
                 attempts >>
         ELSE MidstateLoop(mid, difficulty, WrappingAdd(nonce, 1), end,
                           WrappingAdd(attempts, 1))
    ELSE << Continue(end), attempts >>

\* Mutant: the end of the range is computed with a wrapping addition.
MineChunkWrappingEnd(block_data, difficulty, start_nonce, size) ==
    MidstateLoop(HashMidStateNew(block_data), difficulty, start_nonce,
                 WrappingAdd(start_nonce, size), 0)

mine_chunk_with_midstate(block_data, difficulty, start_nonce, size) ==
    MidstateLoop(HashMidStateNew(block_data), difficulty, start_nonce,
                 SaturatingAdd(start_nonce, size), 0)

\* The digest mine_chunk_naive computes for a nonce.
NaiveHash(block_data, nonce) ==
    FinalizeFixed(Update(Update(Sha256New, block_data), nonce))

\* The while loop of mine_chunk_naive.
RECURSIVE NaiveLoop(_, _, _, _, _)
NaiveLoop(block_data, difficulty, nonce, end, attempts) ==
    IF nonce < end
    THEN IF meets_difficulty(NaiveHash(block_data, nonce), difficulty)
         THEN << Found(hash_to_hex(NaiveHash(block_data, nonce)), nonce),
                 attempts >>
         ELSE NaiveLoop(block_data, difficulty, WrappingAdd(nonce, 1), end,
                        WrappingAdd(attempts, 1))
    ELSE << Continue(end), attempts >>

mine_chunk_naive(block_data, difficulty, start_nonce, size) ==
    NaiveLoop(block_data, difficulty, start_nonce,
              SaturatingAdd(start_nonce, size), 0)

\* The while loop of mine_chunk_simple with the hit counted as an attempt.
RECURSIVE SimpleLoopCountsHit(_, _, _, _, _)
SimpleLoopCountsHit(mid, difficulty, nonce, end, attempts) ==
    IF nonce < end
    THEN IF meets_difficulty(finalize_with_nonce(mid, nonce), difficulty)
         THEN << TRUE, nonce, hash_to_hex(finalize_with_nonce(mid, nonce)),
                 WrappingAdd(attempts, 1) >>
         ELSE SimpleLoopCountsHit(mid, difficulty, WrappingAdd(nonce, 1), end,
                                  WrappingAdd(attempts, 1))
    ELSE << FALSE, end, StringNew, attempts >>

\* Mutant: the attempt that hits is counted.
MineChunkSimpleCountsHit(block_data, difficulty, start_nonce, size) ==
    SimpleLoopCountsHit(HashMidStateNew(block_data), difficulty, start_nonce,
                        SaturatingAdd(start_nonce, size), 0)

\* The while loop of mine_chunk_simple.
RECURSIVE SimpleLoop(_, _, _, _, _)
SimpleLoop(mid, difficulty, nonce, end, attempts) ==
    IF nonce < end
    THEN IF meets_difficulty(finalize_with_nonce(mid, nonce), difficulty)
         THEN << TRUE, nonce, hash_to_hex(finalize_with_nonce(mid, nonce)),
                 attempts >>
         ELSE SimpleLoop(mid, difficulty, WrappingAdd(nonce, 1), end,
                         WrappingAdd(attempts, 1))
    ELSE << FALSE, end, StringNew, attempts >>

mine_chunk_simple(block_data, difficulty, start_nonce, size) ==
    SimpleLoop(HashMidStateNew(block_data), difficulty, start_nonce,
               SaturatingAdd(start_nonce, size), 0)

\* One update call of the worker: its arguments, drawn from the input sets.
\* The canister serves one call at a time.
Args(method, block_data, difficulty, start_nonce, size) ==
    [ method |-> method, block_data |-> block_data, difficulty |-> difficulty,
      start_nonce |-> start_nonce, size |-> size ]

MineChunkWithMidstate ==
    /\ call = None
    /\ \E b \in Blocks, d \in Difficulties, s \in StartNonces, n \in ChunkSizes :
          /\ call' = Some(Args("mine_chunk_with_midstate", b, d, s, n))
          /\ reply' = Some(mine_chunk_with_midstate(b, d, s, n))
    /\ UNCHANGED << cvars, svars, vrf >>

MineChunkNaive ==
    /\ call = None
    /\ \E b \in Blocks, d \in Difficulties, s \in StartNonces, n \in ChunkSizes :
          /\ call' = Some(Args("mine_chunk_naive", b, d, s, n))
          /\ reply' = Some(mine_chunk_naive(b, d, s, n))
    /\ UNCHANGED << cvars, svars, vrf >>

MineChunkSimple ==
    /\ call = None
    /\ \E b \in Blocks, d \in Difficulties, s \in StartNonces, n \in ChunkSizes :
          /\ call' = Some(Args("mine_chunk_simple", b, d, s, n))
          /\ reply' = Some(mine_chunk_simple(b, d, s, n))
    /\ UNCHANGED << cvars, svars, vrf >>

\* The reply has gone out; the worker takes the next call.
WorkerReturns ==
    /\ call # None
    /\ call' = None
    /\ reply' = None
    /\ UNCHANGED << cvars, svars, vrf >>

NextW ==
    \/ MineChunkWithMidstate
    \/ MineChunkNaive
    \/ MineChunkSimple
    \/ WorkerReturns

SpecW == Init /\ [][NextW]_vars

\* ------------------------------------------------------------------------
\* The validator canister (validator/src/lib.rs)
\* ------------------------------------------------------------------------
\* The validator keeps no state: each query is a function of its arguments
\* and of the clock.  Its clock counts minutes here (ONE_HOUR_NS = 60), and
\* u32 difficulties are kept in a word of U32Bits bits.
U32_MAX == (2 ^ U32Bits) - 1

\* u32::saturating_add (u32::saturating_sub is SaturatingSub)
SaturatingAddU32(a, b) == IF a + b > U32_MAX THEN U32_MAX ELSE a + b
\* Ord::max
Max(a, b) == IF a >= b THEN a ELSE b

\* A call that panics traps: the caller gets a reject instead of a result.
Trap == [ trap |-> "panicked" ]

hash_block(block_data, nonce) ==
    FinalizeFixed(Update(Update(Sha256New, block_data), nonce))

\* The validator's own hash_to_hex.
validator_hash_to_hex(bytes) ==
    [ i \in 1..(2 * Len(bytes)) |->
        IF i % 2 = 1
        THEN HexDigits[(bytes[(i + 1) \div 2] \div 16) + 1]
        ELSE HexDigits[(bytes[i \div 2] % 16) + 1] ]

RECURSIVE ValidatorMeetsFromStrict(_, _, _)
ValidatorMeetsFromStrict(hash, i, remaining) ==
    IF i > Len(hash) THEN remaining = 0
    ELSE IF remaining = 0 THEN TRUE
    ELSE IF LeadingZeros(hash[i]) > remaining THEN TRUE
    ELSE IF LeadingZeros(hash[i]) < 8 THEN FALSE
    ELSE ValidatorMeetsFromStrict(hash, i + 1, remaining - 8)

\* Mutant: a byte passes only with more zero bits than remain.
ValidatorMeetsDifficultyStrict(hash, difficulty) ==
    ValidatorMeetsFromStrict(hash, 1, difficulty)

\* The loop of the validator's meets_difficulty from byte i on.
RECURSIVE ValidatorMeetsFrom(_, _, _)
ValidatorMeetsFrom(hash, i, remaining) ==
    IF i > Len(hash) THEN remaining = 0
    ELSE IF remaining = 0 THEN TRUE
    ELSE IF LeadingZeros(hash[i]) >= remaining THEN TRUE
    ELSE IF LeadingZeros(hash[i]) < 8 THEN FALSE
    ELSE ValidatorMeetsFrom(hash, i + 1, remaining - 8)

\* The validator's own meets_difficulty.
validator_meets_difficulty(hash, difficulty) ==
    ValidatorMeetsFrom(hash, 1, difficulty)

compute_hash(block_data, nonce) ==
    validator_hash_to_hex(hash_block(block_data, nonce))

\* ValidationResult
Valid == [ valid |-> TRUE, reason |-> None ]
Invalid(reason) == [ valid |-> FALSE, reason |-> Some(reason) ]

\* Mutant: the timestamp is checked before the difficulty.
VerifyBlockTimestampFirst(block, t) ==
    IF validator_hash_to_hex(hash_block(block.block_data, block.nonce))
          # block.hash
    THEN Invalid(<< "Hash mismatch", block.hash,
                    validator_hash_to_hex(hash_block(block.block_data,
                                                     block.nonce)) >>)
    ELSE IF block.timestamp > t + ONE_HOUR_NS
    THEN Invalid(<< "Block timestamp is in the future" >>)
    ELSE IF ~validator_meets_difficulty(hash_block(block.block_data,
                                                   block.nonce),
                                        block.difficulty)
    THEN Invalid(<< "Hash does not meet difficulty requirement",
                    block.difficulty >>)
    ELSE Valid

\* Mutant: a block older than an hour is rejected too.
VerifyBlockRejectsOld(block, t) ==
    IF validator_hash_to_hex(hash_block(block.block_data, block.nonce))
          # block.hash
    THEN Invalid(<< "Hash mismatch", block.hash,
                    validator_hash_to_hex(hash_block(block.block_data,
                                                     block.nonce)) >>)
    ELSE IF ~validator_meets_difficulty(hash_block(block.block_data,
                                                   block.nonce),
                                        block.difficulty)
    THEN Invalid(<< "Hash does not meet difficulty requirement",
                    block.difficulty >>)
    ELSE IF \/ block.timestamp > t + ONE_HOUR_NS
            \/ block.timestamp + ONE_HOUR_NS < t
    THEN Invalid(<< "Block timestamp is in the future" >>)
    ELSE Valid

\* verify_block at clock value t.  (The clock is far from u64::MAX: t + one
\* hour does not overflow.)
verify_block(block, t) ==
    IF validator_hash_to_hex(hash_block(block.block_data, block.nonce))
          # block.hash
    THEN Invalid(<< "Hash mismatch", block.hash,
                    validator_hash_to_hex(hash_block(block.block_data,
                                                     block.nonce)) >>)
    ELSE IF ~validator_meets_difficulty(hash_block(block.block_data,
                                                   block.nonce),
                                        block.difficulty)
    THEN Invalid(<< "Hash does not meet difficulty requirement",
                    block.difficulty >>)
    ELSE IF block.timestamp > t + ONE_HOUR_NS
    THEN Invalid(<< "Block timestamp is in the future" >>)
    ELSE Valid

\* "Verify each block individually", from block i on: the result of the
\* first block that fails, or Valid.
RECURSIVE VerifyEach(_, _, _)
VerifyEach(blocks, i, t) ==
    IF i > Len(blocks) THEN Valid
    ELSE IF ~verify_block(blocks[i], t).valid THEN verify_block(blocks[i], t)
    ELSE VerifyEach(blocks, i + 1, t)

\* "Verify chain linkage", from position i (0-based, as in the source) on.
\* blocks[i - 1].height + 1 is a plain u64 addition: with overflow checks it
\* panics at u64::MAX, without them it wraps to 0.
RECURSIVE Linkage(_, _, _)
Linkage(blocks, i, overflow_checks) ==
    IF i >= Len(blocks) THEN Valid
    ELSE IF blocks[i + 1].prev_hash # blocks[i].hash
    THEN Invalid(<< "Chain break at height", blocks[i + 1].height,
                    "prev_hash doesn't match" >>)
    ELSE IF blocks[i].height + 1 > U64_MAX /\ overflow_checks
    THEN Trap
    ELSE IF blocks[i + 1].height # WrappingAdd(blocks[i].height, 1)
    THEN Invalid(<< "Height mismatch at position", i, "expected",
                    WrappingAdd(blocks[i].height, 1), "got",
                    blocks[i + 1].height >>)
    ELSE Linkage(blocks, i + 1, overflow_checks)

verify_chain_segment(blocks, t, overflow_checks) ==
    IF blocks = << >> THEN Invalid(<< "Empty chain segment" >>)
    ELSE IF ~VerifyEach(blocks, 1, t).valid THEN VerifyEach(blocks, 1, t)
    ELSE Linkage(blocks, 1, overflow_checks)

\* actual_block_times_seconds.iter().sum(): the sum of times[i..], wrapping,
\* and whether an addition overflows on the way.
RECURSIVE IterSum(_, _, _)
IterSum(times, i, acc) ==
    IF i > Len(times) THEN acc
    ELSE IterSum(times, i + 1, WrappingAdd(acc, times[i]))

RECURSIVE SumOverflows(_, _, _)
SumOverflows(times, i, acc) ==
    IF i > Len(times) THEN FALSE
    ELSE IF acc + times[i] > U64_MAX THEN TRUE
    ELSE SumOverflows(times, i + 1, acc + times[i])

\* The tiers of calculate_difficulty_adjustment once avg_time is known.
Tiers(current_difficulty, target_time, avg_time, overflow_checks) ==
    IF avg_time < target_time \div 2
    THEN SaturatingAddU32(current_difficulty, MAX_ADJUSTMENT)
    ELSE IF avg_time < target_time
    THEN SaturatingAddU32(current_difficulty, 1)
    ELSE IF target_time * 2 > U64_MAX /\ overflow_checks
    THEN Trap
    ELSE IF avg_time > (target_time * 2) % U64_MODULUS
    THEN Max(SaturatingSub(current_difficulty, MAX_ADJUSTMENT), 1)
    ELSE IF avg_time > target_time
    THEN Max(SaturatingSub(current_difficulty, 1), 1)
    ELSE current_difficulty

calculate_difficulty_adjustment(current, target_time, times, checks) ==
    IF times = << >> THEN current
    ELSE IF SumOverflows(times, 1, 0) /\ checks THEN Trap
    ELSE Tiers(current, target_time, IterSum(times, 1, 0) \div Len(times),
               checks)

\* Inputs of the validator's queries.
Hashes ==
    [ 1..HashBytes -> { 0, 1, 2, 3, 4, 8, 16, 32, 64, 127, 128, 255 } ]
ValidatorTimes == { 0, 100 }
\* A stored hash that is no lower-case hex of any digest.
BadHex == << "0", "0", "0", "G" >>

Block(height, prev_hash, block_data, nonce, difficulty, hash, timestamp) ==
    [ height |-> height, prev_hash |-> prev_hash, block_data |-> block_data,
      nonce |-> nonce, difficulty |-> difficulty, hash |-> hash,
      timestamp |-> timestamp, miner |-> None ]

\* The blocks given to verify_block: with the hash of their data and nonce,
\* with another hash or with no hex at all, stamped around one hour after t.
CandidateBlocks(t) ==
    UNION { { Block(0, StringNew, b, n, d, h, ts) :
                d \in Difficulties,
                h \in { validator_hash_to_hex(hash_block(b, n)),
                        validator_hash_to_hex(hash_block(b, n + 1)), BadHex },
                ts \in { 0, t, t + ONE_HOUR_NS - 1, t + ONE_HOUR_NS,
                         t + ONE_HOUR_NS + 1, U64_MAX } } :
            b \in Blocks, n \in { 0, 1 } }

\* The blocks of chain segments: two block_data, one that mines to the zero
\* digest and one that does not, with a right or a wrong stored hash, at
\* difficulty 8, with some heights and predecessors.
Uniform(period, digest) == [ r \in 0..(period - 1) |-> digest ]
SegmentBlocks ==
    { Block(height, prev, b, 0, 8,
            validator_hash_to_hex(hash_block(b, 0)), 0) :
        height \in { 0, 1, 2, U64_MAX },
        prev \in { validator_hash_to_hex(<< 0, 0 >>),
                   validator_hash_to_hex(<< 0, 1 >>) },
        b \in { Uniform(HashPeriod, << 0, 0 >>),
                Uniform(HashPeriod, << 0, 1 >>) } }
      \cup { Block(1, validator_hash_to_hex(<< 0, 0 >>),
                   Uniform(HashPeriod, << 128, 0 >>), 0, 8,
                   validator_hash_to_hex(<< 128, 0 >>), 0),
             Block(1, validator_hash_to_hex(<< 0, 0 >>),
                   Uniform(HashPeriod, << 0, 0 >>), 0, 8, BadHex, 0) }
Segments == UNION { [ 1..n -> SegmentBlocks ] : n \in 0..MaxSegment }

BlockTimes ==
    UNION { [ 1..n -> { 0, 1, 4, 5, 9, 10, 11, 20, 21,
                        (U64_MODULUS \div 2) + 1, U64_MAX } ] :
            n \in 0..MaxTimes }

\* Both copies of meets_difficulty applied to one hash.
MeetsDifficulty ==
    /\ call = None
    /\ \E h \in Hashes, d \in 0..(8 * HashBytes + 1) :
          /\ call' = Some([ method |-> "meets_difficulty", hash |-> h,
                            difficulty |-> d ])
          /\ reply' = Some([ worker |-> meets_difficulty(h, d),
                             validator |-> validator_meets_difficulty(h, d) ])
    /\ UNCHANGED << cvars, svars, vrf >>

VerifyBlock ==
    /\ call = None
    /\ \E t \in ValidatorTimes :
          \E block \in CandidateBlocks(t) :
              /\ call' = Some([ method |-> "verify_block", block |-> block,
                                time |-> t, mined |-> None ])
              /\ reply' = Some(verify_block(block, t))
    /\ UNCHANGED << cvars, svars, vrf >>

\* A client mines a chunk on the worker and, on Found, has the validator
\* verify the block it builds from the nonce and the hash it got.
VerifyMinedBlock ==
    /\ call = None
    /\ \E b \in Blocks, d \in Difficulties, s \in StartNonces,
          n \in ChunkSizes, t \in ValidatorTimes :
          \E ts \in { 0, t, t + ONE_HOUR_NS } :
              LET status == mine_chunk_with_midstate(b, d, s, n)[1]
                  block == Block(1, StringNew, b, status.nonce, d,
                                 status.hash, ts)
              IN  /\ status.tag = "Found"
                  /\ call' = Some([ method |-> "verify_block",
                                    block |-> block, time |-> t,
                                    mined |-> Some(Args(
                                        "mine_chunk_with_midstate",
                                        b, d, s, n)) ])
                  /\ reply' = Some(verify_block(block, t))
    /\ UNCHANGED << cvars, svars, vrf >>

VerifyChainSegment ==
    /\ call = None
    /\ \E blocks \in Segments, overflow_checks \in BOOLEAN :
          /\ call' = Some([ method |-> "verify_chain_segment",
                            blocks |-> blocks, time |-> 0,
                            overflow_checks |-> overflow_checks ])
          /\ reply' = Some(verify_chain_segment(blocks, 0, overflow_checks))
    /\ UNCHANGED << cvars, svars, vrf >>

CalculateDifficultyAdjustment ==
    /\ call = None
    /\ \E c \in { 0, 1, 2, 3, 10, U32_MAX - 1, U32_MAX },
          target_time \in { 0, 1, 2, 7, 10, U64_MODULUS \div 2, U64_MAX },
          times \in BlockTimes, overflow_checks \in BOOLEAN :
          /\ call' = Some([ method |-> "calculate_difficulty_adjustment",
                            current_difficulty |-> c,
                            target_time |-> target_time,
                            times |-> times,
                            overflow_checks |-> overflow_checks ])
          /\ reply' = Some(calculate_difficulty_adjustment(
                               c, target_time, times, overflow_checks))
    /\ UNCHANGED << cvars, svars, vrf >>

\* The reply has gone out; the validator takes the next query.
ValidatorReturns ==
    /\ call # None
    /\ call' = None
    /\ reply' = None
    /\ UNCHANGED << cvars, svars, vrf >>

NextV ==
    \/ MeetsDifficulty
    \/ VerifyBlock
    \/ VerifyMinedBlock
    \/ VerifyChainSegment
    \/ CalculateDifficultyAdjustment
    \/ ValidatorReturns

SpecV == Init /\ [][NextV]_vars

\* ------------------------------------------------------------------------
\* The worker's solution cache (existing_backend/src/cache.rs)
\* ------------------------------------------------------------------------
\* The key "{block_data}:{difficulty}": the digits after the last colon are
\* the difficulty, so the key determines both parts.
make_key(block_data, difficulty) == << block_data, difficulty >>

CacheEntry(nonce, hash, difficulty, hits, created_at, last_accessed) ==
    [ nonce |-> nonce, hash |-> hash, difficulty |-> difficulty,
      hits |-> hits, created_at |-> created_at,
      last_accessed |-> last_accessed ]

\* iter().position(|k| k == &key): the first 1-based position, 0 for None
RECURSIVE PositionFrom(_, _, _)
PositionFrom(order, key, i) ==
    IF i > Len(order) THEN 0
    ELSE IF order[i] = key THEN i
    ELSE PositionFrom(order, key, i + 1)

\* Vec::remove
RemoveAt(order, pos) ==
    SubSeq(order, 1, pos - 1) \o SubSeq(order, pos + 1, Len(order))

\* HashMap::remove, HashMap::insert
MapRemove(entries, key) ==
    [ k \in (DOMAIN entries) \ { key } |-> entries[k] ]
MapInsert(entries, key, entry) ==
    [ k \in (DOMAIN entries) \cup { key } |->
        IF k = key THEN entry ELSE entries[k] ]

\* Mutant: a hit counts and leaves access_order as it is.
LRUCacheGetKeepsOrder(c, block_data, difficulty, t) ==
    LET key == make_key(block_data, difficulty)
    IN  IF key \in DOMAIN c.entries
        THEN [ entries |->
                 [ c.entries EXCEPT ![key].hits = @ + 1,
                                    ![key].last_accessed = t ],
               access_order |-> c.access_order ]
        ELSE c

\* LRUCache::get at time t: the cache it leaves ...
LRUCacheGet(c, block_data, difficulty, t) ==
    LET key == make_key(block_data, difficulty)
        pos == PositionFrom(c.access_order, key, 1)
    IN  IF key \in DOMAIN c.entries
        THEN [ entries |->
                 [ c.entries EXCEPT ![key].hits = @ + 1,
                                    ![key].last_accessed = t ],
               access_order |->
                 Append(IF pos > 0 THEN RemoveAt(c.access_order, pos)
                                   ELSE c.access_order, key) ]
        ELSE c

\* ... and the entry it returns.
LRUCacheGetResult(c, block_data, difficulty, t) ==
    LET key == make_key(block_data, difficulty)
    IN  IF key \in DOMAIN c.entries
        THEN Some(LRUCacheGet(c, block_data, difficulty, t).entries[key])
        ELSE None

\* "Evict LRU if at capacity"
Evict(c, key) ==
    IF /\ Cardinality(DOMAIN c.entries) >= MAX_CACHE_SIZE
       /\ key \notin DOMAIN c.entries
       /\ c.access_order # << >>
    THEN [ entries |-> MapRemove(c.entries, Head(c.access_order)),
           access_order |-> Tail(c.access_order) ]
    ELSE c

\* LRUCache::insert at time t
LRUCacheInsert(c, block_data, difficulty, nonce, hash, t) ==
    [ entries |->
        MapInsert(Evict(c, make_key(block_data, difficulty)).entries,
                  make_key(block_data, difficulty),
                  CacheEntry(nonce, hash, difficulty, 0, t, t)),
      access_order |->
        Append(Evict(c, make_key(block_data, difficulty)).access_order,
               make_key(block_data, difficulty)) ]

\* LRUCache::clear
LRUCacheClear(c) == [ entries |-> << >>, access_order |-> << >> ]

\* cache_lookup's result
cache_lookup(c, block_data, difficulty, t) ==
    IF LRUCacheGetResult(c, block_data, difficulty, t) = None THEN None
    ELSE Some(<< LRUCacheGetResult(c, block_data, difficulty, t)[1].nonce,
                 LRUCacheGetResult(c, block_data, difficulty, t)[1].hash >>)

\* ------------------------------------------------------------------------
\* The worker's streaming task (existing_backend/src/advanced.rs) and its
\* metrics (existing_backend/src/metrics.rs)
\* ------------------------------------------------------------------------
\* Chunk sizes are scaled down (MIN = 1, BASE = 4, MAX = 20 for 20 000,
\* 200 000 and 2 000 000 nonces), the difficulty below which chunks grow is
\* DIFF_PIVOT instead of 24, and the cycles balance counts units of 10^11
\* cycles.  A u64 has NonceBits
\* bits, so NonceBits stands for the 64 of expected_attempts_for_difficulty.
AdvancedTask(on, block_data, difficulty, nonce, size, attempts, at) ==
    [ running |-> on, block_data |-> block_data,
      difficulty |-> difficulty, next_nonce |-> nonce, chunk_size |-> size,
      total_attempts |-> attempts, started_at |-> at ]

\* u64::saturating_mul
SaturatingMul(a, b) == IF a * b > U64_MAX THEN U64_MAX ELSE a * b
\* Ord::clamp
Clamp(x, lo, hi) == IF x < lo THEN lo ELSE IF x > hi THEN hi ELSE x

\* MiningMetrics::record_chunk at time t.  The counters are u64 and their
\* `+=` wraps where the build has no overflow checks (HeartbeatTraps is the
\* other build).
record_chunk(m, hashes, found_solution, early_terminated, t) ==
    LET counted == [ m EXCEPT
                       !.total_chunks_mined = WrappingAdd(@, 1),
                       !.total_hashes_computed = WrappingAdd(@, hashes) ]
    IN  IF found_solution
        THEN [ counted EXCEPT !.successful_chunks = WrappingAdd(@, 1),
                              !.solutions_found = WrappingAdd(@, 1),
                              !.last_solution_time = t ]
        ELSE IF early_terminated
        THEN [ counted EXCEPT !.chunks_abandoned = WrappingAdd(@, 1),
                              !.early_terminations = WrappingAdd(@, 1) ]
        ELSE [ counted EXCEPT !.failed_chunks = WrappingAdd(@, 1) ]

record_cache_hit(m) == [ m EXCEPT !.cache_hits = @ + 1 ]
record_cache_miss(m) == [ m EXCEPT !.cache_misses = @ + 1 ]

record_adaptive_change(m, new_chunk_size) ==
    [ m EXCEPT !.adaptive_chunk_changes = @ + 1,
               !.avg_chunk_size = IF @ = 0 THEN new_chunk_size
                                  ELSE (@ + new_chunk_size) \div 2 ]

\* Mutant: the shift grows with the difficulty.
AdaptiveChunkSizeGrowing(difficulty, cycles) ==
    LET diff_factor == IF difficulty < DIFF_PIVOT
                       THEN 2 ^ difficulty ELSE 1
        cycle_factor == Clamp(cycles \div CYCLES_PER_FACTOR, 1, 5)
        size == SaturatingMul(SaturatingMul(BASE, diff_factor), cycle_factor)
    IN  IF size < MIN THEN MIN ELSE IF size > MAX THEN MAX ELSE size

\* adaptive_chunk_size, given what canister_balance() returns
adaptive_chunk_size(difficulty, cycles) ==
    LET diff_factor == IF difficulty < DIFF_PIVOT
                       THEN 2 ^ (DIFF_PIVOT - difficulty) ELSE 1
        cycle_factor == Clamp(cycles \div CYCLES_PER_FACTOR, 1, 5)
        size == SaturatingMul(SaturatingMul(BASE, diff_factor), cycle_factor)
    IN  IF size < MIN THEN MIN ELSE IF size > MAX THEN MAX ELSE size

expected_attempts_for_difficulty(difficulty) ==
    IF difficulty >= NonceBits THEN U64_MAX ELSE 2 ^ difficulty

\* Mutant: the threshold is four times the expected attempts.
ShouldContinueMiningLenient(attempts_so_far, difficulty) ==
    attempts_so_far
        <= SaturatingMul(expected_attempts_for_difficulty(difficulty), 4)

should_continue_mining(attempts_so_far, difficulty) ==
    attempts_so_far
        <= SaturatingMul(expected_attempts_for_difficulty(difficulty), 3)

\* Inputs of the streaming task: block_data whose digests repeat with period
\* TaskPeriod and meet a difficulty of up to 16 bits at no nonce, at the
\* nonces 27 (mod TaskPeriod), or at the nonces 0 (mod TaskPeriod).
HitAt(row) ==
    [ r \in 0..(TaskPeriod - 1) |->
        IF r = row THEN << 0, 0 >> ELSE << 128, 0 >> ]
TaskBlocks == { Uniform(TaskPeriod, << 128, 0 >>), HitAt(27), HitAt(0) }

\* The unit value an update call returns.
Unit == << "()" >>

\* Mutant: a cache hit is recorded, and the task is installed all the same.
StartAdvancedMiningOverHit ==
    /\ call = None
    /\ metrics.cache_hits + metrics.cache_misses < MaxStarts
    /\ \E b \in TaskBlocks, d \in { 0, 3, NonceBits - 1, NonceBits },
          s \in { 0, 3, U64_MAX - 5 }, n \in { 20 } :
          /\ call' = Some(Args("start_advanced_mining", b, d, s, n))
          /\ cache' = LRUCacheGet(cache, b, d, now)
          /\ metrics' = IF cache_lookup(cache, b, d, now) # None
                        THEN record_cache_hit(metrics)
                        ELSE record_cache_miss(metrics)
          /\ task' = Some(AdvancedTask(TRUE, b, d, s, n, 0, now))
    /\ reply' = Some(Unit)
    /\ UNCHANGED << cvars, vrf >>

StartAdvancedMining ==
    /\ call = None
    /\ metrics.cache_hits + metrics.cache_misses < MaxStarts
    /\ \E b \in TaskBlocks, d \in { 0, 3, NonceBits - 1, NonceBits },
          s \in { 0, 3, U64_MAX - 5 }, n \in { 20 } :
          /\ call' = Some(Args("start_advanced_mining", b, d, s, n))
          /\ IF cache_lookup(cache, b, d, now) # None
             THEN /\ cache' = LRUCacheGet(cache, b, d, now)
                  /\ metrics' = record_cache_hit(metrics)
                  /\ task' = task
             ELSE /\ cache' = LRUCacheGet(cache, b, d, now)
                  /\ metrics' = record_cache_miss(metrics)
                  /\ task' = Some(AdvancedTask(TRUE, b, d, s, n, 0, now))
    /\ reply' = Some(Unit)
    /\ UNCHANGED << cvars, vrf >>

\* stop_advanced_mining.  The Ref of `t.borrow()` in the scrutinee of the
\* `if let` lives to the end of the `if let`, so with a task present
\* `t.borrow_mut()` in its body panics (BorrowMutError): the call traps and
\* the canister's state stays as it was.
StopAdvancedMining ==
    /\ call = None
    /\ call' = Some([ method |-> "stop_advanced_mining" ])
    /\ reply' = IF task # None THEN Some(Trap) ELSE Some(Unit)
    /\ UNCHANGED << cvars, svars, vrf >>

\* clear_cache
ClearCache ==
    /\ call = None
    /\ call' = Some([ method |-> "clear_cache" ])
    /\ reply' = Some(Unit)
    /\ cache' = LRUCacheClear(cache)
    /\ UNCHANGED << cvars, task, metrics, vrf >>

\* advanced_heartbeat with no task, or with a task that is not running.
HeartbeatIdle ==
    /\ IF task = None THEN TRUE ELSE ~task[1].running
    /\ UNCHANGED vars

\* Mutant: Found leaves the task running.
TaskAfterChunkKeepsRunning(t, chunk, status, attempts) ==
    LET mined == [ t EXCEPT !.chunk_size = chunk,
                            !.total_attempts = @ + attempts ]
    IN  IF ~should_continue_mining(mined.total_attempts, t.difficulty)
        THEN [ mined EXCEPT !.running = FALSE ]
        ELSE IF status.tag = "Found"
        THEN mined
        ELSE [ mined EXCEPT !.next_nonce = status.next_nonce ]

\* Mutant: Continue leaves next_nonce where it was.
TaskAfterChunkKeepsNonce(t, chunk, status, attempts) ==
    LET mined == [ t EXCEPT !.chunk_size = chunk,
                            !.total_attempts = @ + attempts ]
    IN  IF ~should_continue_mining(mined.total_attempts, t.difficulty)
        THEN [ mined EXCEPT !.running = FALSE ]
        ELSE IF status.tag = "Found"
        THEN [ mined EXCEPT !.running = FALSE ]
        ELSE mined

\* The task after the chunk: stopped on early termination and on Found,
\* advanced on Continue.
TaskAfterChunk(t, chunk, status, attempts) ==
    LET mined == [ t EXCEPT !.chunk_size = chunk,
                            !.total_attempts = @ + attempts ]
    IN  IF ~should_continue_mining(mined.total_attempts, t.difficulty)
        THEN [ mined EXCEPT !.running = FALSE ]
        ELSE IF status.tag = "Found"
        THEN [ mined EXCEPT !.running = FALSE ]
        ELSE [ mined EXCEPT !.next_nonce = status.next_nonce ]

\* advanced_heartbeat with a running task: one chunk is mined.  At most
\* `limit` chunks are mined, with a cycles balance of `balances`.
HeartbeatMinesWith(limit, balances) ==
    /\ task # None
    /\ task[1].running
    /\ metrics.total_chunks_mined < limit
    /\ \E cycles \in balances :
          LET t == task[1]
              chunk == adaptive_chunk_size(t.difficulty, cycles)
              sized == IF chunk # t.chunk_size
                       THEN record_adaptive_change(metrics, chunk)
                       ELSE metrics
              result == mine_chunk_with_midstate(t.block_data, t.difficulty,
                                                 t.next_nonce, chunk)
              status == result[1]
              attempts == result[2]
              should_terminate ==
                  ~should_continue_mining(t.total_attempts + attempts,
                                          t.difficulty)
          IN  /\ task' = Some(TaskAfterChunk(t, chunk, status, attempts))
              /\ IF should_terminate
                 THEN /\ metrics' = record_chunk(sized, attempts, FALSE, TRUE,
                                                 now)
                      /\ cache' = cache
                 ELSE IF status.tag = "Found"
                 THEN /\ cache' = LRUCacheInsert(cache, t.block_data,
                                                 t.difficulty, status.nonce,
                                                 status.hash, now)
                      /\ metrics' = record_chunk(sized, attempts, TRUE, FALSE,
                                                 now)
                 ELSE /\ metrics' = record_chunk(sized, attempts, FALSE,
                                                 FALSE, now)
                      /\ cache' = cache
    /\ UNCHANGED << cvars, call, reply, vrf >>

HeartbeatMines == HeartbeatMinesWith(MaxTicks, { 0, 2, 9 })

\* is_cached, a query: get runs on the cache, and what it changes (hits,
\* last_accessed, the key's place in access_order) is discarded when the
\* query returns.
IsCached ==
    /\ call = None
    /\ \E b \in TaskBlocks, d \in { 0, 3 } :
          /\ call' = Some([ method |-> "is_cached", block_data |-> b,
                            difficulty |-> d ])
          /\ reply' = Some(<< LRUCacheGetResult(cache, b, d, now) # None >>)
    /\ UNCHANGED << cvars, svars, vrf >>

NextT ==
    \/ StartAdvancedMining
    \/ StopAdvancedMining
    \/ ClearCache
    \/ IsCached
    \/ HeartbeatIdle
    \/ HeartbeatMines
    \/ WorkerReturns

SpecT == Init /\ [][NextT]_vars

\* ------------------------------------------------------------------------
\* One streaming task under heartbeats that never cease
\* ------------------------------------------------------------------------
\* The first start_advanced_mining of the canister.
StartFirstTask ==
    /\ task = None
    /\ StartAdvancedMining

\* Overflow checks on: with total_chunks_mined at u64::MAX the `+= 1` of
\* record_chunk panics, the heartbeat traps and what it did is rolled back.
HeartbeatTraps ==
    /\ task # None
    /\ IF task = None THEN FALSE ELSE task[1].running
    /\ metrics.total_chunks_mined = U64_MAX
    /\ UNCHANGED vars

\* The heartbeats of a canister whose balance stays at two units.
HeartbeatForever == HeartbeatMinesWith(U64_MODULUS, { 2 })

NextL ==
    \/ StartFirstTask
    \/ HeartbeatIdle
    \/ HeartbeatForever
    \/ HeartbeatTraps
    \/ WorkerReturns

\* The system calls canister_heartbeat in every round: a heartbeat that can
\* mine a chunk eventually does.
SpecL == Init /\ [][NextL]_vars /\ WF_vars(HeartbeatForever)

\* ------------------------------------------------------------------------
\* adaptive_chunk_size on its own: every difficulty, balances up to
\* MaxBalance
\* ------------------------------------------------------------------------
AdaptiveChunkSize ==
    /\ call = None
    /\ \E d \in 0..U32_MAX, cycles \in 0..MaxBalance :
          /\ call' = Some([ method |-> "adaptive_chunk_size",
                            difficulty |-> d, cycles |-> cycles ])
          /\ reply' = Some(adaptive_chunk_size(d, cycles))
    /\ UNCHANGED << cvars, svars, vrf >>

NextA ==
    \/ AdaptiveChunkSize
    \/ WorkerReturns

SpecA == Init /\ [][NextA]_vars

\* ------------------------------------------------------------------------
\* The LRUCache under its own operations: get, insert, clear
\* ------------------------------------------------------------------------
CacheKeys ==
    { << b, d >> : b \in { Uniform(TaskPeriod, << 128, 0 >>), HitAt(27) },
                   d \in { 0, 3 } }

CacheGet ==
    /\ call = None
    /\ \E k \in CacheKeys :
          /\ make_key(k[1], k[2]) \in DOMAIN cache.entries =>
                cache.entries[make_key(k[1], k[2])].hits < MaxHits
          /\ call' = Some([ method |-> "get", block_data |-> k[1],
                            difficulty |-> k[2] ])
          /\ reply' = Some(LRUCacheGetResult(cache, k[1], k[2], now))
          /\ cache' = LRUCacheGet(cache, k[1], k[2], now)
    /\ UNCHANGED << cvars, task, metrics, vrf >>

CacheInsert ==
    /\ call = None
    /\ Len(cache.access_order) < MaxOrder
    /\ \E k \in CacheKeys, nonce \in { 27, 59 } :
          /\ call' = Some([ method |-> "insert", block_data |-> k[1],
                            difficulty |-> k[2], nonce |-> nonce,
                            hash |-> hash_to_hex(<< 0, 0 >>) ])
          /\ reply' = Some(Unit)
          /\ cache' = LRUCacheInsert(cache, k[1], k[2], nonce,
                                     hash_to_hex(<< 0, 0 >>), now)
    /\ UNCHANGED << cvars, task, metrics, vrf >>

CacheClear ==
    /\ call = None
    /\ call' = Some([ method |-> "clear" ])
    /\ reply' = Some(Unit)
    /\ cache' = LRUCacheClear(cache)
    /\ UNCHANGED << cvars, task, metrics, vrf >>

NextC ==
    \/ CacheGet
    \/ CacheInsert
    \/ CacheClear
    \/ WorkerReturns
    \/ AdvanceTimeUpTo(CacheMaxNow)

SpecC == Init /\ [][NextC]_vars

\* ------------------------------------------------------------------------
\* The one-shot fan-out (coordinator/src/lib.rs, start_vrf_parallel_mining)
\* ------------------------------------------------------------------------
\* vrf holds the locals of the async call between its awaits: the futures in
\* `calls` (the requests performed so far in `sent`, the responses that have
\* arrived in `results`) and the position `pos` of the future awaited.
\* Whether `call(..)` performs the inter-canister call when the future is
\* made or when it is first polled depends on the ic-cdk the canister is
\* built with: `lazy` is that choice.  overflow_checks is the build's choice
\* for the plain multiplication (i as u64) * range_per_miner.
MiningResult(nonce, hash) == [ found |-> TRUE, nonce |-> nonce, hash |-> hash ]

\* The call of future i is performed: the request
\* `call(miner, "mine_chunk_with_midstate", (.., start, range_per_miner))`
\* is sent.
Perform(v, i) ==
    [ v EXCEPT !.sent = Append(@, [ to |-> i, start |-> v.starts[i],
                                    size |-> v.range ]) ]

Performed(v, i) == \E k \in 1..Len(v.sent) : v.sent[k].to = i

\* The first loop: every future is made, in an eager build with its call.
RECURSIVE MakeCalls(_, _)
MakeCalls(v, i) ==
    IF i > v.n THEN v
    ELSE MakeCalls(IF v.lazy THEN v ELSE Perform(v, i), i + 1)

\* The second loop from the future awaited on: it goes on over the responses
\* that are there and stops at a future without one (polling it performs
\* its call in a lazy build), at a Found, or at the end.
RECURSIVE AwaitCalls(_)
AwaitCalls(v) ==
    IF v.pos > v.n
    THEN [ v EXCEPT !.returned = TRUE, !.value = None ]
    ELSE IF v.results[v.pos] = None
    THEN (IF Performed(v, v.pos) THEN v ELSE Perform(v, v.pos))
    ELSE IF v.results[v.pos] = Some("Found")
    THEN [ v EXCEPT !.returned = TRUE,
                    !.value = Some(MiningResult(v.starts[v.pos],
                                       WorkerHash(v.starts[v.pos]))) ]
    ELSE AwaitCalls([ v EXCEPT !.pos = @ + 1 ])

\* The call up to its first await.
StartVrfParallelMining ==
    /\ call = None
    /\ vrf = None
    /\ \E n \in 0..VrfMiners, range \in { 100, U64_MODULUS \div 2 },
          lazy \in BOOLEAN, overflow_checks \in BOOLEAN :
          \E offsets \in [ 1..n -> { 0, U64_MAX } ] :
              LET v == [ n |-> n, range |-> range, lazy |-> lazy,
                         starts |-> [ i \in 1..n |->
                             WrappingAdd(WrappingAdd(0, offsets[i]),
                                         ((i - 1) * range) % U64_MODULUS) ],
                         sent |-> << >>,
                         results |-> [ i \in 1..n |-> None ],
                         pos |-> 1, returned |-> FALSE, value |-> None ]
              IN  /\ call' = Some([ method |-> "start_vrf_parallel_mining",
                                    miner_canisters |-> [ i \in 1..n |-> i ],
                                    range_per_miner |-> range ])
                  /\ IF (n - 1) * range > U64_MAX /\ overflow_checks
                     THEN /\ vrf' = None
                          /\ reply' = Some(Trap)
                     ELSE /\ vrf' = Some(AwaitCalls(MakeCalls(v, 1)))
                          /\ reply' = IF AwaitCalls(MakeCalls(v, 1)).returned
                                      THEN Some(None) ELSE None
    /\ UNCHANGED << cvars, svars >>

\* The response of worker i arrives; if its future is the one awaited, the
\* call goes on to its next await or to its return.
VrfResponse ==
    /\ vrf # None
    /\ ~vrf[1].returned
    /\ \E i \in 1..vrf[1].n, outcome \in { "Found", "Continue", "Err" } :
          /\ Performed(vrf[1], i)
          /\ vrf[1].results[i] = None
          /\ LET arrived == [ vrf[1] EXCEPT !.results[i] = Some(outcome) ]
                 v == IF i = arrived.pos THEN AwaitCalls(arrived) ELSE arrived
             IN  /\ vrf' = Some(v)
                 /\ reply' = IF v.returned THEN Some(v.value) ELSE reply
    /\ UNCHANGED << cvars, svars, call >>

\* The caller has its answer.
VrfReturns ==
    /\ call # None
    /\ reply # None
    /\ call' = None
    /\ reply' = None
    /\ vrf' = None
    /\ UNCHANGED << cvars, svars >>

NextF ==
    \/ StartVrfParallelMining
    \/ VrfResponse
    \/ VrfReturns

SpecF == Init /\ [][NextF]_vars

\* ------------------------------------------------------------------------
\* Helpers of the properties
\* ------------------------------------------------------------------------
\* The mine RPCs (indices of dispatched) sent in search e.
DispatchesOf(e) == { k \in DOMAIN dispatched : dispatched[k].epoch = e }

\* Two chunks [start, start + size) share a nonce.
Overlap(c, d) ==
    /\ c.size > 0
    /\ d.size > 0
    /\ c.start < d.start + d.size
    /\ d.start < c.start + c.size

RosterIds(ms) == [ i \in DOMAIN ms |-> ms[i].id ]

\* The stop RPCs sent to worker `id` by the broadcasts started in search e.
StopsSent(id, e) ==
    Cardinality({ << k, i >> \in (DOMAIN bcasts) \X (1..MaxMiners + 1) :
                    /\ bcasts[k].epoch = e
                    /\ i <= bcasts[k].sent
                    /\ bcasts[k].targets[i] = id })

\* ------------------------------------------------------------------------
\* C1
\* ------------------------------------------------------------------------
\* C1: within one search every dispatched chunk is [start, start + chunk_size)
\* and the chunks of two distinct dispatches share no nonce.
C1_DispatchedRangesDisjoint ==
    \A j, k \in DispatchesOf(epoch) :
        /\ dispatched[k].size = chunk_size
        /\ (j < k => ~Overlap(dispatched[j], dispatched[k]))

\* ------------------------------------------------------------------------
\* C2
\* ------------------------------------------------------------------------
\* C2: once a Found response has set solution_found, no later step of the
\* same search changes it.
C2_FirstFoundWins ==
    [][ (solution_found # None /\ epoch' = epoch)
            => solution_found' = solution_found ]_vars

\* ------------------------------------------------------------------------
\* C3
\* ------------------------------------------------------------------------
BusyFlags(ms) == [ i \in DOMAIN ms |-> ms[i].busy ]

\* C3: solution_found set implies running false, and a tick that starts after
\* the latch leaves next_nonce, total_chunks_assigned, rr_cursor and every
\* slot's busy flag as they were.
C3_LatchStopsScheduling ==
    /\ [](solution_found # None => ~running)
    /\ [][ (solution_found # None /\ Tick)
              => /\ next_nonce' = next_nonce
                 /\ total_chunks_assigned' = total_chunks_assigned
                 /\ rr_cursor' = rr_cursor
                 /\ BusyFlags(miners') = BusyFlags(miners)
                 /\ dispatched' = dispatched ]_vars

\* A latched search whose heartbeat is still installed and in which a slot is
\* idle and not quarantined: a tick would dispatch were it not for the latch.
C3_Witness ==
    /\ solution_found # None
    /\ target
    /\ total_chunks_assigned < MaxDispatch
    /\ \E i \in DOMAIN miners : Eligible(miners[i])

\* ------------------------------------------------------------------------
\* C4
\* ------------------------------------------------------------------------
\* C4: a stop RPC is sent only after solution_found has been written; the
\* broadcast targets the whole roster, in roster order, busy and quarantined
\* workers included, and it never comes to rest before the last target,
\* whatever the replies of the stop RPCs were.
C4_BroadcastAfterLatchToAll ==
    \A k \in DOMAIN bcasts :
        bcasts[k].epoch = epoch =>
            /\ solution_found # None
            /\ bcasts[k].targets = RosterIds(miners)
            /\ bcasts[k].sent <= Len(bcasts[k].targets)
            /\ (bcasts[k].targets # << >> => bcasts[k].sent >= 1)
            /\ (~bcasts[k].awaiting => bcasts[k].sent = Len(bcasts[k].targets))

\* A broadcast has gone through a roster of two with a quarantined or a busy
\* worker on it.
C4_Witness ==
    \E k \in DOMAIN bcasts :
        /\ bcasts[k].epoch = epoch
        /\ ~bcasts[k].awaiting
        /\ Len(bcasts[k].targets) = 2
        /\ \E i \in DOMAIN miners : miners[i].failures >= MAX_FAILURES
        /\ \E i \in DOMAIN miners : miners[i].busy

\* ------------------------------------------------------------------------
\* C5
\* ------------------------------------------------------------------------
\* C5: within one search the stop broadcast is issued once, so every worker
\* receives at most one stop RPC per search.
C5_AtMostOneStopPerWorker ==
    \A e \in 1..epoch :
        /\ Cardinality({ k \in DOMAIN bcasts : bcasts[k].epoch = e }) <= 1
        /\ \A id \in 1..MaxMiners : StopsSent(id, e) <= 1

\* ------------------------------------------------------------------------
\* C6
\* ------------------------------------------------------------------------
\* C6 (under SpecS3): with n workers, start_nonce s and chunk_size c, the
\* k-th dispatch (k = 0, 1, ...) goes to worker index k mod n with the range
\* [s + k*c, s + (k+1)*c).
C6_RoundRobinOrder ==
    \A k \in DOMAIN dispatched :
        \E p \in SearchParams :
            /\ chunk_size = p[2]
            /\ dispatched[k].slot_index = (k - 1) % Len(miners)
            /\ dispatched[k].miner = miners[((k - 1) % Len(miners)) + 1].id
            /\ dispatched[k].start = p[1] + (k - 1) * p[2]
            /\ dispatched[k].size = p[2]

\* ------------------------------------------------------------------------
\* C7
\* ------------------------------------------------------------------------
\* The slots a selection pass examined and passed over.
Skipped(c) == { c.probed[x] : x \in 1..(Len(c.probed) - 1) }

\* The cursor a pass started from: one past the previous pick of the search.
CursorBefore(k) ==
    IF k - 1 \in DispatchesOf(dispatched[k].epoch)
    THEN (dispatched[k - 1].slot_index + 1) % Len(miners)
    ELSE 0

\* Pass `probed` starts at `cursor`, moves one slot (modulo n) per probe and
\* examines no slot twice.
OneByOne(probed, cursor, n) ==
    /\ Len(probed) <= n
    /\ \A x \in DOMAIN probed : probed[x] = (cursor + x - 1) % n
    /\ \A x, y \in DOMAIN probed : x # y => probed[x] # probed[y]

\* C7: in any |miners| consecutive successful selections of a search, a slot
\* picked by none of them was examined and found busy or quarantined by one of
\* them (so a slot that stays idle in a search without quarantine is picked
\* within |miners| selections); every pass moves the cursor one slot per probe
\* and examines no slot twice.
C7_RoundRobinFair ==
    /\ [](LET n == Len(miners)
              K == DispatchesOf(epoch)
          IN  /\ \A k \in K :
                    /\ OneByOne(dispatched[k].probed, CursorBefore(k), n)
                    /\ dispatched[k].probed[Len(dispatched[k].probed)]
                          = dispatched[k].slot_index
              /\ \A a \in K :
                    (a + n - 1) \in K =>
                        \A j \in 0..(n - 1) :
                            \E k \in a..(a + n - 1) :
                                \/ dispatched[k].slot_index = j
                                \/ j \in Skipped(dispatched[k])
              /\ (n > 0 => /\ rr_cursor < n
                           /\ OneByOne(Pick.probed, rr_cursor, n)))
    /\ [][ Len(dispatched') > Len(dispatched) =>
              \A j \in Skipped(dispatched'[Len(dispatched')]) :
                  \/ miners'[j + 1].busy
                  \/ miners'[j + 1].failures >= MAX_FAILURES ]_vars

\* Three selections over two slots, none quarantined, one of which passed
\* over a busy slot.
C7_Witness ==
    /\ Len(miners) = 2
    /\ Cardinality(DispatchesOf(epoch)) >= 3
    /\ \A i \in DOMAIN miners : miners[i].failures < MAX_FAILURES
    /\ \E k \in DispatchesOf(epoch) : Skipped(dispatched[k]) # {}

\* ------------------------------------------------------------------------
\* C8
\* ------------------------------------------------------------------------
\* C8: within a search a slot's failures never decrease, and a slot with
\* failures >= MAX_FAILURES is idle, stays idle and is assigned no chunk.
C8_QuarantineHolds ==
    [][ epoch' = epoch =>
          \A i \in DOMAIN miners :
              /\ miners'[i].failures >= miners[i].failures
              /\ (miners[i].failures >= MAX_FAILURES =>
                      /\ ~miners[i].busy
                      /\ ~miners'[i].busy
                      /\ miners'[i].total_chunks = miners[i].total_chunks) ]_vars

\* A quarantined slot in a search that is still scheduling: ticks keep
\* running their selection pass.
C8_Witness ==
    /\ target
    /\ ~TickReturnsEarly
    /\ total_chunks_assigned < MaxDispatch
    /\ \E i \in DOMAIN miners : miners[i].failures >= MAX_FAILURES

\* ------------------------------------------------------------------------
\* C9
\* ------------------------------------------------------------------------
\* A tick of the single-worker scenario that ran its selection pass.
S4Tick == TickNoPick \/ TickDispatch(MaxDispatch)

\* The chunk of the only slot is older than the timeout.
S4Late == miners[1].busy /\ now - miners[1].assigned_at > ASSIGN_TIMEOUT_NS

\* What C9 says of every tick apart from the one that reclaims.
S4Rest ==
    /\ (~miners[1].busy /\ miners[1].failures < MAX_FAILURES =>
            /\ miners'[1].busy
            /\ miners'[1].assigned_at = now
            /\ miners'[1].failures = miners[1].failures)
    /\ (miners[1].busy /\ ~S4Late =>
            /\ miners' = miners
            /\ dispatched' = dispatched)
    /\ (miners[1].failures >= MAX_FAILURES =>
            /\ ~miners[1].busy
            /\ miners' = miners
            /\ dispatched' = dispatched)

\* C9 as claimed (under SpecS4): after the first tick the slot is busy; a tick
\* at the timeout or before reclaims nothing; a tick later than that leaves
\* the slot idle with one more failure; a slot with three failures is
\* quarantined and ticks pick nothing.
C9_TimeoutLeavesIdle ==
    [][ S4Tick =>
          /\ S4Rest
          /\ (S4Late =>
                /\ miners'[1].failures = miners[1].failures + 1
                /\ ~miners'[1].busy
                /\ miners'[1].assigned_at = 0) ]_vars

\* C9 amended (under SpecS4): the tick that reclaims counts one more failure
\* and, while that count is below MAX_FAILURES, assigns the next chunk to the
\* slot in the same pass, so the slot is busy again; at the third failure the
\* slot is left idle, quarantined.
C9_TimeoutReassigns ==
    [][ S4Tick =>
          /\ S4Rest
          /\ (S4Late =>
                /\ miners'[1].failures = miners[1].failures + 1
                /\ IF miners'[1].failures < MAX_FAILURES
                   THEN /\ miners'[1].busy
                        /\ miners'[1].assigned_at = now
                        /\ miners'[1].total_chunks = miners[1].total_chunks + 1
                        /\ Len(dispatched') = Len(dispatched) + 1
                   ELSE /\ ~miners'[1].busy
                        /\ miners'[1].assigned_at = 0
                        /\ dispatched' = dispatched) ]_vars

\* Three timeout cycles have quarantined the only slot.
C9_Witness ==
    /\ Len(miners) = 1
    /\ miners[1].failures = MAX_FAILURES
    /\ miners[1].total_chunks = 3
    /\ ~miners[1].busy
    /\ ~Pick.picked

\* ------------------------------------------------------------------------
\* C10
\* ------------------------------------------------------------------------
\* C10: when a mine RPC of the current search fails, its slot becomes idle
\* with assigned_at = 0 and one more failure; its other fields, the other
\* slots, running, solution_found, next_nonce and the cursor stay as they
\* were, and the slot stays selectable while its failures are below
\* MAX_FAILURES.
C10_TransportErrorAbsorbed ==
    [][ \A k \in pending :
          (dispatched[k].epoch = epoch /\ RespondErrorTo(k)) =>
              LET i == dispatched[k].slot_index + 1
              IN  /\ ~miners'[i].busy
                  /\ miners'[i].assigned_at = 0
                  /\ miners'[i].failures = miners[i].failures + 1
                  /\ miners'[i].id = miners[i].id
                  /\ miners'[i].total_chunks = miners[i].total_chunks
                  /\ miners'[i].successful_chunks = miners[i].successful_chunks
                  /\ \A j \in DOMAIN miners : j # i => miners'[j] = miners[j]
                  /\ UNCHANGED << running, solution_found, next_nonce,
                                  rr_cursor, total_chunks_assigned, target >>
                  /\ (miners'[i].failures < MAX_FAILURES
                          => Eligible(miners'[i])) ]_vars

\* A failed RPC has been absorbed (no timeout can have happened yet): the
\* slot is idle with a failure, the other slot is still busy, the search runs.
C10_Witness ==
    /\ now = 1
    /\ running
    /\ solution_found = None
    /\ \E i, j \in DOMAIN miners :
          /\ miners[i].failures = 1
          /\ ~miners[i].busy
          /\ miners[j].busy

\* ------------------------------------------------------------------------
\* C11
\* ------------------------------------------------------------------------
\* The slot (position in miners) mine RPC k was sent for.
SlotOf(k) == dispatched[k].slot_index + 1

\* Mine RPC k of the current search is still unanswered and its slot has been
\* taken away from it: the slot is idle, or a newer chunk has been assigned to
\* it.  The timeout sweep is the only code that does this to an unanswered
\* chunk (the replies to other RPCs apart, which is what C11 is about).
Reclaimed(k) ==
    /\ k \in pending
    /\ dispatched[k].epoch = epoch
    /\ \/ ~miners[SlotOf(k)].busy
       \/ \E j \in DispatchesOf(epoch) :
             j > k /\ dispatched[j].slot_index = dispatched[k].slot_index

\* Mine RPC k is answered in this step, by Found, Continue or an error.
Responds(k) ==
    \/ \E nonce \in FoundNonces(dispatched[k]) : RespondFoundTo(k, nonce)
    \/ RespondContinueTo(k)
    \/ RespondErrorTo(k)

\* C11: a response to a chunk whose slot was reclaimed by the sweep leaves the
\* slot's busy, assigned_at, failures and successful_chunks as they are; it
\* does not clear the busy flag of a newer chunk on the slot.
C11_LateResponseDiscarded ==
    [][ \A k \in pending :
          (Reclaimed(k) /\ Responds(k)) =>
              /\ miners'[SlotOf(k)].busy = miners[SlotOf(k)].busy
              /\ miners'[SlotOf(k)].assigned_at = miners[SlotOf(k)].assigned_at
              /\ miners'[SlotOf(k)].failures = miners[SlotOf(k)].failures
              /\ miners'[SlotOf(k)].successful_chunks
                    = miners[SlotOf(k)].successful_chunks ]_vars

\* ------------------------------------------------------------------------
\* C12
\* ------------------------------------------------------------------------
\* C12: a Continue reply of the current search processed after the latch
\* clears the busy flag of its slot and leaves solution_found and running
\* as they are.
C12_ContinueAfterLatch ==
    [][ \A k \in pending :
          (/\ solution_found # None
           /\ dispatched[k].epoch = epoch
           /\ RespondContinueTo(k)) =>
              /\ ~miners'[SlotOf(k)].busy
              /\ solution_found' = solution_found
              /\ running' = running ]_vars

\* A latched search with every reply in: one Found (one broadcast) and, no
\* failure having been counted, a Continue for each of the other chunks; the
\* slots are idle and the latch holds the nonce of the Found.
C12_Witness ==
    /\ solution_found # None
    /\ ~running
    /\ pending = {}
    /\ Len(bcasts) = 1
    /\ Len(miners) = 2
    /\ \A i \in DOMAIN miners : ~miners[i].busy /\ miners[i].failures = 0
    /\ \E k \in DispatchesOf(epoch) :
          /\ dispatched[k].start # solution_found[1][1]
          /\ miners[SlotOf(k)].assigned_at = 0

\* ------------------------------------------------------------------------
\* C13
\* ------------------------------------------------------------------------
\* C13: in every reachable state every slot has
\* total_chunks >= successful_chunks.
C13_TotalCoversSuccessful ==
    \A i \in DOMAIN miners :
        miners[i].total_chunks >= miners[i].successful_chunks

\* ------------------------------------------------------------------------
\* C14
\* ------------------------------------------------------------------------
\* C14: within one search next_nonce never decreases, and every dispatch
\* starts at a larger nonce than the dispatch before it.
C14_NextNonceMonotonic ==
    [][ epoch' = epoch =>
          /\ next_nonce' >= next_nonce
          /\ \A k \in DispatchesOf(epoch)' :
                (k > 1 /\ k - 1 \in DispatchesOf(epoch)') =>
                    dispatched'[k].start > dispatched'[k - 1].start ]_vars

\* ------------------------------------------------------------------------
\* C15
\* ------------------------------------------------------------------------
\* C15 (under SpecS5): a start of a search leaves one slot per roster id, in
\* roster order, each idle with failures, total_chunks and successful_chunks
\* zero, and running = true, rr_cursor = 0, next_nonce = start_nonce,
\* solution_found = None, total_chunks_assigned = 0, whatever the state of
\* the search before it was.
C15_StartIsFresh ==
    [][ epoch' # epoch =>
          /\ \E roster \in Rosters, p \in SearchParams :
                /\ Len(miners') = Len(roster)
                /\ \A i \in DOMAIN roster :
                      /\ miners'[i].id = roster[i]
                      /\ ~miners'[i].busy
                      /\ miners'[i].failures = 0
                      /\ miners'[i].total_chunks = 0
                      /\ miners'[i].successful_chunks = 0
                /\ next_nonce' = p[1]
                /\ chunk_size' = p[2]
          /\ initialized'
          /\ running'
          /\ rr_cursor' = 0
          /\ solution_found' = None
          /\ total_chunks_assigned' = 0 ]_vars

\* The second search has just been started over a search that had latched a
\* solution (its broadcast is on record) after three chunks.
C15_Witness ==
    /\ epoch = 2
    /\ \E k \in DOMAIN bcasts : bcasts[k].epoch = 1
    /\ Cardinality(DispatchesOf(1)) = 3
    /\ DispatchesOf(2) = {}
    /\ Len(miners) = 2
    /\ running
    /\ solution_found = None

\* ------------------------------------------------------------------------
\* C16
\* ------------------------------------------------------------------------
\* While no tick target is installed no chunk is dispatched, and only a start
\* of a search installs one.
NoDispatchWhileStopped ==
    /\ (~target => dispatched' = dispatched)
    /\ (~target /\ target' => epoch' # epoch)

Served(method) == call # None /\ call[1].method = method
Arg == call[1]
Ret == reply[1]

\* SHA-256 of block_data followed by the nonce.
Digest(block_data, nonce) == block_data[nonce % HashPeriod]

\* The number of leading zero bits of a digest.
RECURSIVE ZeroBitsFrom(_, _)
ZeroBitsFrom(hash, i) ==
    IF i > Len(hash) THEN 0
    ELSE IF hash[i] = 0 THEN 8 + ZeroBitsFrom(hash, i + 1)
    ELSE LeadingZeros(hash[i])

\* The nonces of lo..(hi - 1), u64 values, whose digest has at least
\* `difficulty` leading zero bits.
Qualifying(block_data, difficulty, lo, hi) ==
    { x \in lo..(hi - 1) :
        /\ x <= U64_MAX
        /\ ZeroBitsFrom(Digest(block_data, x), 1) >= difficulty }

Smallest(S) == CHOOSE x \in S : \A y \in S : x <= y

\* The end of the range: start + size, clamped at u64::MAX.
ClampedEnd(a) ==
    IF a.start_nonce + a.size > U64_MAX THEN U64_MAX
    ELSE a.start_nonce + a.size

\* ------------------------------------------------------------------------
\* C17
\* ------------------------------------------------------------------------
\* C17 as claimed (under SpecW): mine_chunk_with_midstate returns Found with
\* the smallest qualifying nonce of [start, start + size) and the hex of its
\* digest; if there is none, Continue{next_nonce = start + size} with
\* attempts = size.
C17_ResultOverRange ==
    Served("mine_chunk_with_midstate") =>
        LET q == Qualifying(Arg.block_data, Arg.difficulty, Arg.start_nonce,
                            Arg.start_nonce + Arg.size)
        IN  IF q # {}
            THEN Ret[1] = Found(hash_to_hex(Digest(Arg.block_data, Smallest(q))),
                                Smallest(q))
            ELSE Ret = << Continue(Arg.start_nonce + Arg.size), Arg.size >>

\* C17 amended (under SpecW): the range is [start, end) with end = start + size
\* clamped at u64::MAX; Found carries the smallest qualifying nonce of that
\* range and the hex of its digest; if there is none, the result is
\* Continue{next_nonce = end} with attempts = end - start.
C17_ResultOverClampedRange ==
    Served("mine_chunk_with_midstate") =>
        LET q == Qualifying(Arg.block_data, Arg.difficulty, Arg.start_nonce,
                            ClampedEnd(Arg))
        IN  IF q # {}
            THEN Ret[1] = Found(hash_to_hex(Digest(Arg.block_data, Smallest(q))),
                                Smallest(q))
            ELSE Ret = << Continue(ClampedEnd(Arg)),
                          ClampedEnd(Arg) - Arg.start_nonce >>

\* A chunk of three nonces whose last nonce is the only one to qualify, at a
\* difficulty of seven bits met with exactly seven.
C17_Witness ==
    /\ Served("mine_chunk_with_midstate")
    /\ Arg.size = 3
    /\ Arg.difficulty = 7
    /\ Ret[1] = Found(<< "0", "1", "0", "0" >>, Arg.start_nonce + 2)

\* ------------------------------------------------------------------------
\* C18
\* ------------------------------------------------------------------------
\* C18 (under SpecW): the attempts returned with Found count the hit: when
\* the first qualifying nonce is n, attempts = n - start + 1.
C18_AttemptsCountHit ==
    (Served("mine_chunk_with_midstate") /\ Ret[1].tag = "Found") =>
        Ret[2] = Ret[1].nonce - Arg.start_nonce + 1

\* ------------------------------------------------------------------------
\* C19
\* ------------------------------------------------------------------------
\* C19 (under SpecW): when start_nonce + chunk_size overflows, the search runs
\* over [start_nonce, u64::MAX) upwards: Found carries the smallest qualifying
\* nonce at or above start_nonce, and an exhausted search returns
\* Continue{next_nonce = u64::MAX}, every nonce below u64::MAX having been
\* attempted.
C19_ClampedAtMax ==
    (/\ Served("mine_chunk_with_midstate")
     /\ Arg.start_nonce + Arg.size > U64_MAX) =>
        LET q == Qualifying(Arg.block_data, Arg.difficulty, Arg.start_nonce,
                            U64_MAX)
        IN  IF q # {}
            THEN /\ Ret[1].tag = "Found"
                 /\ Ret[1].nonce = Smallest(q)
                 /\ Ret[1].nonce >= Arg.start_nonce
            ELSE Ret = << Continue(U64_MAX), U64_MAX - Arg.start_nonce >>

\* An overflowing chunk searched to its clamped end: two nonces attempted,
\* none qualifying.
C19_Witness ==
    /\ Served("mine_chunk_with_midstate")
    /\ Arg.start_nonce = U64_MAX - 2
    /\ Arg.size = 3
    /\ Ret = << Continue(U64_MAX), 2 >>

\* ------------------------------------------------------------------------
\* C20
\* ------------------------------------------------------------------------
\* The tuple of mine_chunk_simple that stands for a tagged result.
AsTuple(r) ==
    IF r[1].tag = "Found"
    THEN << TRUE, r[1].nonce, r[1].hash, r[2] >>
    ELSE << FALSE, r[1].next_nonce, StringNew, r[2] >>

\* C20 (under SpecW): on every input mine_chunk_simple returns the tuple that
\* stands for the result of mine_chunk_with_midstate, and mine_chunk_naive
\* returns the status and attempts of mine_chunk_with_midstate.
C20_EntryPointsAgree ==
    /\ Served("mine_chunk_simple") =>
          Ret = AsTuple(mine_chunk_with_midstate(Arg.block_data, Arg.difficulty,
                                                 Arg.start_nonce, Arg.size))
    /\ Served("mine_chunk_naive") =>
          Ret = mine_chunk_with_midstate(Arg.block_data, Arg.difficulty,
                                         Arg.start_nonce, Arg.size)

\* mine_chunk_simple has found the second nonce of a chunk.
C20_Witness ==
    /\ Served("mine_chunk_simple")
    /\ Ret[1] = TRUE
    /\ Ret[2] = Arg.start_nonce + 1
    /\ Ret[4] = 1

\* ------------------------------------------------------------------------
\* C21..C25: the validator
\* ------------------------------------------------------------------------
\* Bit k (0 = most significant bit of the first byte) of the big-endian bit
\* expansion of hash.
BitOf(hash, k) == (hash[(k \div 8) + 1] \div (2 ^ (7 - (k % 8)))) % 2

\* hash, as a big-endian bit string, begins with at least d zero bits.
BeginsWithZeroBits(hash, d) ==
    /\ d <= 8 * Len(hash)
    /\ \A k \in 0..(d - 1) : BitOf(hash, k) = 0

\* C21: both copies of meets_difficulty answer true exactly when the hash
\* begins with at least d zero bits: always for d = 0, and for d of at least
\* the hash's bit length only if the hash is all zero; the two copies agree.
C21_MeetsDifficultyIsZeroPrefix ==
    Served("meets_difficulty") =>
        /\ Ret.worker = BeginsWithZeroBits(Arg.hash, Arg.difficulty)
        /\ Ret.validator = Ret.worker
        /\ Arg.difficulty = 0 => Ret.worker
        /\ (Arg.difficulty >= 8 * Len(Arg.hash) /\ Ret.worker)
              => \A i \in 1..Len(Arg.hash) : Arg.hash[i] = 0

C21_Witness ==
    /\ Served("meets_difficulty")
    /\ Arg.hash[1] = 0
    /\ Arg.hash[2] = 16
    /\ Arg.difficulty = 11
    /\ Ret.worker
    /\ Ret.validator

\* The block given to verify_block meets its own difficulty, is stamped at
\* most an hour after the validator's clock, and, for WellFormed, stores the
\* hash of its data and nonce.
MeetsOwnDifficulty ==
    BeginsWithZeroBits(Digest(Arg.block.block_data, Arg.block.nonce),
                       Arg.block.difficulty)
NotFuture == Arg.block.timestamp <= Arg.time + ONE_HOUR_NS
WellFormed ==
    /\ Arg.block.hash = compute_hash(Arg.block.block_data, Arg.block.nonce)
    /\ MeetsOwnDifficulty
    /\ NotFuture

\* C22: verify_block accepts every block that stores the hash of its data
\* and nonce, whose hash meets its difficulty and whose timestamp is at most
\* an hour ahead; so it accepts each block built from a Found of the worker
\* with such a timestamp.
C22_WellFormedBlockAccepted ==
    Served("verify_block") =>
        /\ WellFormed => Ret = Valid
        /\ (Arg.mined # None /\ NotFuture) => Ret = Valid

C22_Witness ==
    /\ Served("verify_block")
    /\ Arg.mined # None
    /\ Arg.mined[1].start_nonce = 1000
    /\ Arg.block.nonce = 1001
    /\ Arg.block.difficulty = 8
    /\ Arg.block.timestamp = Arg.time + ONE_HOUR_NS
    /\ Ret = Valid

\* The kind of a ValidationResult's reason.
ReasonKind(result) == result.reason[1][1]
HashMismatch ==
    Arg.block.hash # compute_hash(Arg.block.block_data, Arg.block.nonce)

\* C23: verify_block checks the hash, then the difficulty, then the
\* timestamp, and reports the first check that fails; the timestamp check
\* fails exactly when the timestamp is more than an hour ahead of the clock,
\* never because the block is old.
C23_FirstFailingCheckReported ==
    Served("verify_block") =>
        /\ HashMismatch =>
              /\ ~Ret.valid
              /\ ReasonKind(Ret) = "Hash mismatch"
        /\ (~HashMismatch /\ ~MeetsOwnDifficulty) =>
              /\ ~Ret.valid
              /\ ReasonKind(Ret) = "Hash does not meet difficulty requirement"
        /\ (~HashMismatch /\ MeetsOwnDifficulty) =>
              /\ Ret.valid = NotFuture
              /\ ~NotFuture =>
                    ReasonKind(Ret) = "Block timestamp is in the future"

C23_Witness ==
    /\ Served("verify_block")
    /\ ~HashMismatch
    /\ ~MeetsOwnDifficulty
    /\ ~NotFuture
    /\ ~Ret.valid
    /\ ReasonKind(Ret) = "Hash does not meet difficulty requirement"

\* Position i (1-based, i >= 2) of the segment does not continue position
\* i - 1: by its prev_hash, or by its height.
PrevHashBreak(blocks, i) == blocks[i].prev_hash # blocks[i - 1].hash
HeightBreak(blocks, i) == blocks[i].height # blocks[i - 1].height + 1
Breaks(blocks) ==
    { i \in 2..Len(blocks) : PrevHashBreak(blocks, i) \/ HeightBreak(blocks, i) }
EveryBlockPasses(blocks, t) ==
    \A i \in 1..Len(blocks) : verify_block(blocks[i], t).valid

\* C24: verify_chain_segment answers valid exactly for a non-empty list of
\* blocks that each pass verify_block and each continue their predecessor by
\* prev_hash and by height; a broken linkage is reported at its first
\* position, a prev_hash break as a chain break at that block's height.
C24_SegmentValidIffLinked ==
    Served("verify_chain_segment") =>
        /\ "valid" \in DOMAIN Ret
        /\ Ret.valid = /\ Arg.blocks # << >>
                       /\ EveryBlockPasses(Arg.blocks, Arg.time)
                       /\ Breaks(Arg.blocks) = {}
        /\ ( /\ EveryBlockPasses(Arg.blocks, Arg.time)
             /\ Breaks(Arg.blocks) # {} ) =>
               LET i == Smallest(Breaks(Arg.blocks))
               IN  IF PrevHashBreak(Arg.blocks, i)
                   THEN /\ ReasonKind(Ret) = "Chain break at height"
                        /\ Ret.reason[1][2] = Arg.blocks[i].height
                   ELSE /\ ReasonKind(Ret) = "Height mismatch at position"
                        /\ Ret.reason[1][2] = i - 1

\* The sum of a list of block times and their average, as integers.
RECURSIVE SumOf(_)
SumOf(times) ==
    IF times = << >> THEN 0 ELSE Head(times) + SumOf(Tail(times))
Average(times) == SumOf(times) \div Len(times)

\* The tiered table of the difficulty adjustment over the integers.
Table(current, target_time, avg) ==
    IF avg < target_time \div 2
    THEN (IF current + 2 > U32_MAX THEN U32_MAX ELSE current + 2)
    ELSE IF avg < target_time
    THEN (IF current + 1 > U32_MAX THEN U32_MAX ELSE current + 1)
    ELSE IF avg > 2 * target_time
    THEN (IF current - 2 > 1 THEN current - 2 ELSE 1)
    ELSE IF avg > target_time
    THEN (IF current - 1 > 1 THEN current - 1 ELSE 1)
    ELSE current

\* C25: calculate_difficulty_adjustment returns the current difficulty for an
\* empty list and otherwise what the tiered table gives for the average
\* block time, for every target and every list of times, also when
\* 2 * target or the sum of the times exceeds u64::MAX.
C25_AdjustmentFollowsTable ==
    Served("calculate_difficulty_adjustment") =>
        Ret = IF Arg.times = << >> THEN Arg.current_difficulty
              ELSE Table(Arg.current_difficulty, Arg.target_time,
                         Average(Arg.times))

\* ------------------------------------------------------------------------
\* C26..C30: the worker's streaming task and cache, the one-shot fan-out
\* ------------------------------------------------------------------------
\* This step is the worker serving a call of the method.
Serves(method) ==
    /\ call = None
    /\ call' # None
    /\ call'[1].method = method

\* C26: stop_advanced_mining leaves a task that was present with running =
\* false and its other fields as they were, and changes nothing when there
\* is no task (so a second call changes nothing more); a stopped task is
\* left alone by every later heartbeat.
C26_StopIsEffective ==
    /\ [][ Serves("stop_advanced_mining") =>
             /\ task # None =>
                   task' = Some([ task[1] EXCEPT !.running = FALSE ])
             /\ task = None => task' = None
             /\ cache' = cache
             /\ metrics' = metrics ]_vars
    /\ [][ ( /\ task # None
             /\ IF task = None THEN FALSE ELSE ~task[1].running
             /\ call' = call ) => task' = task ]_vars

\* The keys of a list, and the list holding no key twice.
KeysOf(order) == { order[i] : i \in 1..Len(order) }
NoDuplicates(order) ==
    \A i, j \in 1..Len(order) : order[i] = order[j] => i = j

\* C27: after any sequence of get, insert and clear, access_order and
\* entries have the same length and the same keys, access_order holds no key
\* twice, and its first key is the least recently used one.
C27_OrderMatchesEntries ==
    /\ Len(cache.access_order) = Cardinality(DOMAIN cache.entries)
    /\ KeysOf(cache.access_order) = DOMAIN cache.entries
    /\ NoDuplicates(cache.access_order)
    /\ cache.access_order # << >> =>
          \A k \in DOMAIN cache.entries :
              cache.entries[Head(cache.access_order)].last_accessed
                  <= cache.entries[k].last_accessed

\* The keys used least recently: those with the smallest last_accessed.
LeastRecentlyUsed(entries) ==
    { k \in DOMAIN entries :
        \A j \in DOMAIN entries :
            entries[k].last_accessed <= entries[j].last_accessed }

\* C28: the cache never holds more than MAX_CACHE_SIZE entries; inserting an
\* absent key into a full cache evicts exactly one entry, a least recently
\* used one, and stores the new entry with hits = 0.
C28_CapacityAndLRUEviction ==
    /\ [](Cardinality(DOMAIN cache.entries) <= MAX_CACHE_SIZE)
    /\ [][ ( /\ Serves("insert")
             /\ make_key(call'[1].block_data, call'[1].difficulty)
                   \notin DOMAIN cache.entries
             /\ Cardinality(DOMAIN cache.entries) = MAX_CACHE_SIZE ) =>
           LET key == make_key(call'[1].block_data, call'[1].difficulty)
           IN  /\ \E lru \in LeastRecentlyUsed(cache.entries) :
                     DOMAIN cache'.entries
                         = ((DOMAIN cache.entries) \ { lru }) \cup { key }
               /\ \A k \in (DOMAIN cache'.entries) \ { key } :
                     cache'.entries[k] = cache.entries[k]
               /\ cache'.entries[key].hits = 0 ]_vars

\* The requests the fan-out has sent to worker i, and the workers whose
\* response was Found.
RequestsTo(v, i) == { k \in 1..Len(v.sent) : v.sent[k].to = i }
FoundBy(v) == { i \in 1..v.n : v.results[i] = Some("Found") }

\* C29: when start_vrf_parallel_mining has returned, every worker was sent
\* exactly one request, of size range_per_miner; the result is the nonce and
\* hash of the lowest-index worker that responded Found, and None exactly if
\* no worker did; no stop was broadcast.
C29_OneShotFanOut ==
    (Served("start_vrf_parallel_mining") /\ reply # None) =>
        /\ vrf # None
        /\ \A i \in 1..vrf[1].n : Cardinality(RequestsTo(vrf[1], i)) = 1
        /\ \A k \in 1..Len(vrf[1].sent) :
              vrf[1].sent[k].size = Arg.range_per_miner
        /\ Ret = IF FoundBy(vrf[1]) = {} THEN None
                 ELSE Some(MiningResult(
                        vrf[1].starts[Smallest(FoundBy(vrf[1]))],
                        WorkerHash(vrf[1].starts[Smallest(FoundBy(vrf[1]))])))
        /\ bcasts = << >>

\* A heartbeat mines a chunk: the chunk it mines, the attempts it adds and
\* whether that takes total_attempts past three times the expected attempts.
Mines ==
    /\ task # None
    /\ task' # None
    /\ metrics'.total_chunks_mined = metrics.total_chunks_mined + 1
AttemptsAdded == task'[1].total_attempts - task[1].total_attempts
PastThreshold(total, d) == d < NonceBits /\ total > 3 * (2 ^ d)

\* C30: a heartbeat whose chunk takes total_attempts past 3 * 2^d (d below
\* the word width; never for larger d) stops the task, stores nothing in the
\* cache and records the sample as early-terminated and not as a solution,
\* whether the chunk was Found or Continue; a heartbeat that leaves
\* total_attempts at or below 3 * 2^d does not terminate the task early.
C30_EarlyTermination ==
    [][ Mines =>
          IF PastThreshold(task'[1].total_attempts, task[1].difficulty)
          THEN /\ ~task'[1].running
               /\ task'[1].next_nonce = task[1].next_nonce
               /\ cache' = cache
               /\ metrics'.early_terminations
                     = metrics.early_terminations + 1
               /\ metrics'.chunks_abandoned = metrics.chunks_abandoned + 1
               /\ metrics'.solutions_found = metrics.solutions_found
               /\ metrics'.successful_chunks = metrics.successful_chunks
          ELSE /\ metrics'.early_terminations = metrics.early_terminations
               /\ metrics'.chunks_abandoned = metrics.chunks_abandoned
               /\ task'[1].running
                     <=> metrics'.solutions_found = metrics.solutions_found
      ]_vars

\* A chunk that held a solution at nonce 27 was abandoned: 20 attempts of an
\* earlier chunk and the 7 before the solution exceed 3 * 2^3.
C30_Witness ==
    /\ task # None
    /\ task[1].block_data = HitAt(27)
    /\ task[1].difficulty = 3
    /\ task[1].total_attempts = 27
    /\ ~task[1].running
    /\ metrics.early_terminations = 1
    /\ metrics.solutions_found = 0
    /\ cache = LRUCacheNew

\* ------------------------------------------------------------------------
\* C31..C39
\* ------------------------------------------------------------------------
\* The range a heartbeat searches for task t with a chunk of `size` nonces:
\* it ends at next_nonce + size, clamped at u64::MAX.
TickEnd(t, size) ==
    IF t.next_nonce + size > U64_MAX THEN U64_MAX ELSE t.next_nonce + size

\* The nonces of that range whose digest meets the task's difficulty.
TickQualifying(t, size) ==
    { x \in t.next_nonce..(TickEnd(t, size) - 1) :
        ZeroBitsFrom(t.block_data[x % TaskPeriod], 1) >= t.difficulty }

\* C31: in a heartbeat that is not early-terminated, a chunk with a
\* qualifying nonce stops the task and leaves (nonce, hash) of the smallest
\* one in the cache under the task's (block_data, difficulty), so that the
\* cache answers a lookup of that key with them; a chunk without one leaves
\* the task running with next_nonce at the end of the range searched and the
\* cache as it was, so that the next heartbeat's range begins where this one
\* ended.
C31_FoundStoredContinueAdvances ==
    [][ ( Mines /\ ~PastThreshold(task'[1].total_attempts,
                                  task[1].difficulty) ) =>
          LET t == task[1]
              size == task'[1].chunk_size
              q == TickQualifying(t, size)
          IN  IF q # {}
              THEN /\ ~task'[1].running
                   /\ cache_lookup(cache', t.block_data, t.difficulty, now)
                         = Some(<< Smallest(q),
                                   hash_to_hex(
                                     t.block_data[Smallest(q) % TaskPeriod])
                                >>)
                   /\ AttemptsAdded = Smallest(q) - t.next_nonce
              ELSE /\ task'[1].running
                   /\ task'[1].next_nonce = TickEnd(t, size)
                   /\ AttemptsAdded = TickEnd(t, size) - t.next_nonce
                   /\ cache' = cache
                   /\ task'[1].block_data = t.block_data
                   /\ task'[1].difficulty = t.difficulty ]_vars

\* A task started at nonce 3 searched [3, 19) without a solution and then
\* found nonce 27 in [19, 35) after 16 + 8 = 24 attempts, the threshold of
\* difficulty 3: the solution is in the cache and the task has stopped.
C31_Witness ==
    /\ task # None
    /\ task[1].block_data = HitAt(27)
    /\ task[1].difficulty = 3
    /\ task[1].total_attempts = 24
    /\ ~task[1].running
    /\ metrics.total_chunks_mined = 2
    /\ metrics.failed_chunks = 1
    /\ metrics.solutions_found = 1
    /\ cache_lookup(cache, HitAt(27), 3, now)
          = Some(<< 27, hash_to_hex(<< 0, 0 >>) >>)

\* C32: start_advanced_mining looks the key up first.  On a hit the hit
\* counter grows by one and the task cell stays exactly as it was; on a miss
\* the miss counter grows by one and the cell holds a new task, running,
\* with next_nonce = start_nonce and total_attempts = 0, whatever task it
\* held before.
C32_StartConsultsCache ==
    [][ Serves("start_advanced_mining") =>
          IF make_key(call'[1].block_data, call'[1].difficulty)
                \in DOMAIN cache.entries
          THEN /\ task' = task
               /\ metrics' = [ metrics EXCEPT !.cache_hits = @ + 1 ]
          ELSE /\ metrics' = [ metrics EXCEPT !.cache_misses = @ + 1 ]
               /\ task' # None
               /\ Len(task') = 1
               /\ task'[1].running
               /\ task'[1].block_data = call'[1].block_data
               /\ task'[1].difficulty = call'[1].difficulty
               /\ task'[1].next_nonce = call'[1].start_nonce
               /\ task'[1].chunk_size = call'[1].size
               /\ task'[1].total_attempts = 0 ]_vars

\* A start for the block whose solution an earlier task had found: a hit,
\* with the stopped task of that search still in the cell.
C32_Witness ==
    /\ Served("start_advanced_mining")
    /\ Arg.block_data = HitAt(27)
    /\ Arg.start_nonce = 0
    /\ metrics.cache_hits = 1
    /\ metrics.cache_misses = 1
    /\ task # None
    /\ task[1].next_nonce = 3
    /\ ~task[1].running
    /\ metrics.solutions_found = 1

\* C33: adaptive_chunk_size(d) with a balance of B is
\* clamp(BASE * diff_factor * budget_factor, MIN, MAX), diff_factor being
\* 2^(DIFF_PIVOT - d) below DIFF_PIVOT and 1 from it on, budget_factor being
\* clamp(B / CYCLES_PER_FACTOR, 1, 5); it lies in [MIN, MAX] and no larger
\* difficulty gives a larger size for the same balance.
C33_AdaptiveChunkSize ==
    Served("adaptive_chunk_size") =>
        LET d == Arg.difficulty
            diff_factor == IF d < DIFF_PIVOT THEN 2 ^ (DIFF_PIVOT - d) ELSE 1
            budget == Arg.cycles \div CYCLES_PER_FACTOR
            budget_factor == IF budget < 1 THEN 1
                             ELSE IF budget > 5 THEN 5 ELSE budget
            product == BASE * diff_factor * budget_factor
        IN  /\ Ret = IF product < MIN THEN MIN
                     ELSE IF product > MAX THEN MAX ELSE product
            /\ MIN <= Ret
            /\ Ret <= MAX
            /\ \A d2 \in d..U32_MAX :
                  adaptive_chunk_size(d2, Arg.cycles) <= Ret

\* One below the pivot with a balance of two units: twice BASE, doubled by
\* the budget, and still under MAX.
C33_Witness ==
    /\ Served("adaptive_chunk_size")
    /\ Arg.difficulty = DIFF_PIVOT - 1
    /\ Arg.cycles = 2 * CYCLES_PER_FACTOR
    /\ Ret = 4 * BASE
    /\ Ret < MAX

\* The keys of a list other than `key`, in the list's order.
Others(order, key) == SelectSeq(order, LAMBDA k : k # key)

\* C34: a get that hits returns the stored nonce and hash, adds one to the
\* hits of that entry, leaves every other entry, the set of keys and every
\* nonce and hash as they were, and puts the key at the most recently used
\* end of access_order without changing the order of the other keys; a get
\* that misses returns None and leaves the cache as it was.
C34_LookupFrame ==
    [][ Serves("get") =>
          LET key == make_key(call'[1].block_data, call'[1].difficulty)
          IN  IF key \in DOMAIN cache.entries
              THEN /\ reply' # None
                   /\ reply'[1] # None
                   /\ reply'[1][1].nonce = cache.entries[key].nonce
                   /\ reply'[1][1].hash = cache.entries[key].hash
                   /\ DOMAIN cache'.entries = DOMAIN cache.entries
                   /\ cache'.entries[key].hits = cache.entries[key].hits + 1
                   /\ cache'.entries[key].nonce = cache.entries[key].nonce
                   /\ cache'.entries[key].hash = cache.entries[key].hash
                   /\ \A k \in (DOMAIN cache.entries) \ { key } :
                         cache'.entries[k] = cache.entries[k]
                   /\ Len(cache'.access_order) = Len(cache.access_order)
                   /\ cache'.access_order[Len(cache'.access_order)] = key
                   /\ Others(cache'.access_order, key)
                         = Others(cache.access_order, key)
              ELSE /\ reply' = Some(None)
                   /\ cache' = cache ]_vars

\* A get of the older of two entries: it has one hit and now stands after
\* the entry that was stored later.
C34_Witness ==
    /\ Served("get")
    /\ reply # None
    /\ Ret # None
    /\ Ret[1].hits = 1
    /\ Len(cache.access_order) = 2
    /\ cache.access_order[2] = make_key(Arg.block_data, Arg.difficulty)
    /\ cache.access_order[1] # cache.access_order[2]
    /\ cache.entries[cache.access_order[2]].created_at
          < cache.entries[cache.access_order[1]].created_at
    /\ cache.entries[cache.access_order[1]].hits = 0

\* C35: a response to a chunk dispatched before the latest start_scheduler
\* leaves the new search alone: solution_found and running stay as they
\* are, and so do busy, failures and successful_chunks of every slot of the
\* new roster.
C35_SearchesIsolated ==
    [][ \A k \in pending :
          (dispatched[k].epoch < epoch /\ Responds(k)) =>
              /\ solution_found' = solution_found
              /\ running' = running
              /\ DOMAIN miners' = DOMAIN miners
              /\ \A i \in DOMAIN miners :
                    /\ miners'[i].busy = miners[i].busy
                    /\ miners'[i].failures = miners[i].failures
                    /\ miners'[i].successful_chunks
                          = miners[i].successful_chunks ]_vars

\* The sum of total_chunks over the slots i..Len(ms) of a roster.
RECURSIVE TotalChunksFrom(_, _)
TotalChunksFrom(ms, i) ==
    IF i > Len(ms) THEN 0
    ELSE ms[i].total_chunks + TotalChunksFrom(ms, i + 1)

\* Mine RPC k of the current search has been answered by a transport error:
\* it is answered, and its slot has counted no successful chunk.
Errored(k) ==
    /\ k \notin pending
    /\ dispatched[k].epoch = epoch
    /\ miners[SlotOf(k)].successful_chunks = 0

\* total_chunks_assigned is the sum of the slots' total_chunks.
AssignedIsSumOfSlots ==
    total_chunks_assigned = TotalChunksFrom(miners, 1)

\* next_nonce is start_nonce + total_chunks_assigned * chunk_size modulo
\* 2^64: a start sets total_chunks_assigned to 0, and every other step moves
\* next_nonce by chunk_size for each chunk it adds.
NextNonceFollowsAssigned ==
    IF epoch' # epoch
    THEN total_chunks_assigned' = 0
    ELSE /\ chunk_size' = chunk_size
         /\ next_nonce'
               = (next_nonce
                    + (total_chunks_assigned' - total_chunks_assigned)
                        * chunk_size) % U64_MODULUS

\* A step dispatches a chunk that shares a nonce with chunk k.
Redispatches(k) ==
    /\ Len(dispatched') = Len(dispatched) + 1
    /\ epoch' = epoch
    /\ Overlap(dispatched[k], dispatched'[Len(dispatched')])

\* C36: a range whose dispatch ended in an RPC error or was reclaimed by the
\* timeout is not dispatched again in the same search; in every state
\* total_chunks_assigned is the sum of the slots' total_chunks and next_nonce
\* is start_nonce + total_chunks_assigned * chunk_size modulo 2^64.
C36_NoRedispatch ==
    /\ [](AssignedIsSumOfSlots)
    /\ [][NextNonceFollowsAssigned]_vars
    /\ [][ \A k \in DispatchesOf(epoch) :
             (Errored(k) \/ Reclaimed(k)) => ~Redispatches(k) ]_vars

\* The difficulties whose threshold 3 * 2^d fits a u64: d <= 61 of 64 bits.
ThresholdFits(d) == 3 * (2 ^ d) <= U64_MAX

\* The task cell holds a running task of such a difficulty; it holds a
\* stopped task.
RunningTask ==
    IF task = None THEN FALSE
    ELSE task[1].running /\ ThresholdFits(task[1].difficulty)
StoppedTask == IF task = None THEN FALSE ELSE ~task[1].running

\* C37: a running task of such a difficulty stops within finitely many
\* heartbeats, whatever its start_nonce; a stopped task is left as it is by
\* every heartbeat.
C37_TaskStops ==
    /\ RunningTask ~> StoppedTask
    /\ [][ (StoppedTask /\ call' = call) => task' = task ]_vars

\* This heartbeat stores a solution in the cache.
Stores ==
    /\ Mines
    /\ metrics'.solutions_found # metrics.solutions_found

\* C38: through start_advanced_mining, stop_advanced_mining, the heartbeat,
\* clear_cache and is_cached the cache is never asked to store a key it
\* holds, and in every state access_order holds no key twice and is as long
\* as entries.
C38_NoStoreOfPresentKey ==
    /\ [](/\ NoDuplicates(cache.access_order)
          /\ Len(cache.access_order) = Cardinality(DOMAIN cache.entries))
    /\ [][ Stores =>
             make_key(task[1].block_data, task[1].difficulty)
                 \notin DOMAIN cache.entries ]_vars

\* The solution of a block was found and stored, the cache was cleared, and
\* a second task for the same block found and stored it again.
C38_Witness ==
    /\ metrics.solutions_found = 2
    /\ metrics.cache_misses = 2
    /\ Len(cache.access_order) = 1
    /\ StoppedTask
    /\ DOMAIN cache.entries
          = { make_key(task[1].block_data, task[1].difficulty) }

\* C39: for a list of block times that is not empty, the result of
\* calculate_difficulty_adjustment is a difficulty at most 2 away from the
\* current one, 0 and 1 included; it is not above the current one when the
\* average block time exceeds the target, and not below it when the average
\* is under the target.
C39_DirectionConsistent ==
    (Served("calculate_difficulty_adjustment") /\ Arg.times # << >>) =>
        /\ ToString(Ret) # ToString(Trap)
        /\ Ret - Arg.current_difficulty <= MAX_ADJUSTMENT
        /\ Arg.current_difficulty - Ret <= MAX_ADJUSTMENT
        /\ Average(Arg.times) > Arg.target_time
              => Ret <= Arg.current_difficulty
        /\ Average(Arg.times) < Arg.target_time
              => Ret >= Arg.current_difficulty

====
